---- MODULE Spec2Model ----
(***************************************************************************)
(* Model of MCPGhidra5Service (scripts/service/mcp_ghidra5_service.py):    *)
(* the Windows service wrapper that launches the MCP server as a worker    *)
(* process, monitors it from a background thread and restarts it with      *)
(* exponential backoff.                                                    *)
(*                                                                         *)
(* Three threads run the service object's methods:                         *)
(*   "main"  SvcDoRun                                                      *)
(*   "scm"   the service control handler, which calls SvcStop              *)
(*   "mon"   _monitor_server, which calls _handle_server_restart and       *)
(*           SvcStop                                                       *)
(* A thread takes one step per block of statements; a block ends at a      *)
(* blocking call (time.sleep, Popen.wait, Thread.join,                     *)
(* WaitForSingleObject) or where the code of another claim-relevant phase  *)
(* begins (the restart decision, the stop signal, terminate()).            *)
(*                                                                         *)
(* Time is in seconds.  The only code that reads the clock is              *)
(* _handle_server_restart (datetime.now()), which runs on the monitor      *)
(* thread, so the clock 'now' advances when the monitor thread returns     *)
(* from a time.sleep: by the duration slept, plus, for the health-check    *)
(* sleep, an optional further idle period.                                 *)
(***************************************************************************)
EXTENDS Integers, Sequences, FiniteSets, TLC

VARIABLES
    auto_restart,     \* config service.auto_restart
    enable_monitoring, \* config service.enable_monitoring
    max_restarts,     \* config service.max_restarts
    restart_delay,    \* config service.restart_delay
    is_alive,         \* self.is_alive
    server_process,   \* self.server_process: 0 is None, else the pid of the Popen handle
    monitor_thread,   \* self.monitor_thread is set (the Thread object exists)
    restart_count,    \* self.restart_count
    last_restart,     \* self.last_restart: NoTime is None, else a timestamp
    hWaitStop,        \* the auto-reset stop event is signaled
    pc,               \* position of each thread
    current_time,     \* local of _handle_server_restart
    pending_delay,    \* local restart_delay of _handle_server_restart
    running,          \* pids of the worker processes that are running
    launched,         \* number of worker processes launched so far (the last pid)
    now,              \* the clock
    wakes,            \* number of time.sleep calls the monitor thread has returned from
    jumps,            \* number of idle periods taken
    decisions,        \* history: the restart decisions taken
    stops,            \* number of SvcStop calls the control handler has completed
    checks,           \* number of periodic health checks done, up to MaxChecks
    errors,           \* number of exceptions raised in the monitor loop body
    actor,            \* the thread that took the last step
    logged,           \* the log entries the last step wrote, in order
    sent,             \* the launches, terminate() and kill() calls of the last step
    wrote,            \* the fields of the service object the last step assigned
    exists,           \* the server script paths that exist on disk
    api_key,          \* config server.api_key
    launch,           \* script, command line and environment of the last
                      \* _start_server call
    status,           \* the dict that a call of _get_service_status builds
    config_files,     \* what is found at each searched configuration path
    cpc,              \* where __init__ stands
    logger,           \* whether the attribute self.logger exists
    fn,               \* the function of an MCP server that is called
    server,           \* the MCP server module the function belongs to
    tool,             \* the tool name handed to handle_call_tool
    arguments,        \* the names of the arguments handed to the handler
    handler,          \* the handler awaited by handle_call_tool, how it ended
    tempfiles,        \* the temporary script files that exist on disk
    script_path,      \* the temporary script the called handler created
    environ,          \* os.environ of the MCP server: the two key variables
    mpc,              \* where the called function stands
    attempt,          \* the loop variable of the retry loop
    history,          \* the HTTP requests sent: outcome and the sleep after it
    result            \* what the function returned or raised

vars == <<auto_restart, enable_monitoring, max_restarts, restart_delay,
          is_alive, server_process, monitor_thread, restart_count,
          last_restart, hWaitStop, pc, current_time, pending_delay, running,
          launched, now, wakes, jumps, decisions, stops, checks, errors,
          actor, logged, sent, wrote, exists, api_key, launch, status,
          config_files, cpc, logger,
          fn, server, tool, arguments, handler, tempfiles, script_path,
          environ, mpc, attempt, history, result>>

(* the construction of the service object *)
construction == <<config_files, cpc, logger>>

(* self.config, and the construction that loaded it *)
config ==
    <<auto_restart, enable_monitoring, max_restarts, restart_delay,
      construction>>

(* what the last step did *)
step == <<actor, logged, sent, wrote>>

(* the inputs of _start_server: the file system and the configured key *)
inputs == <<exists, api_key>>

(* the state of a call into an MCP server *)
mcp ==
    <<fn, server, tool, arguments, handler, tempfiles, script_path, environ,
      mpc, attempt, history, result>>

(* what an MCP server function is called with *)
request == <<fn, server, tool, arguments, environ>>

(* the temporary scripts *)
files == <<tempfiles, script_path>>

(* the state that the steps of the service threads leave alone, but for
   _start_server, which records its launch *)
others == <<inputs, launch, status, mcp>>

(* the state of the service, which a call into an MCP server leaves alone *)
supervisor ==
    <<config, is_alive, server_process, monitor_thread, restart_count,
      last_restart, hWaitStop, pc, current_time, pending_delay, running,
      launched, now, wakes, jumps, decisions, stops, checks, errors, step,
      inputs, launch, status>>

----------------------------------------------------------------------------
(* Bounds of the model *)

ExtraProcs == 1      \* workers that can be launched beyond max_restarts
ExtraDecisions == 1  \* restart decisions that can be taken beyond max_restarts
ExtraWakes == 0      \* sleeps of the monitor thread beyond two per allowed restart
MaxJumps == 1        \* idle periods
MaxStops == 2        \* SvcStop calls by the control handler
MaxChecks == 1       \* periodic health checks that are counted
MaxErrors == 1       \* exceptions raised in the monitor loop body

----------------------------------------------------------------------------
(* Program constants *)

restart_window == 3600
health_check_interval == 60
MaxRestartDelay == 300
ErrorSleep == 30
DaySeconds == 86400

NoTime == -1

NoScript == "no script"

(* Python's None, where a string or a dict is expected *)
None == <<>>

(* the value of an input that a specification does not follow *)
Unobserved == "unobserved"

Range(f) == {f[i] : i \in DOMAIN f}

Threads == {"main", "scm", "mon"}

Fields == {"is_alive", "server_process", "restart_count", "last_restart"}

(* lengths of the periods in which the monitor loop only polls a running
   worker and sleeps (whole numbers of health-check intervals): an hour, a
   day *)
IdlePeriods == {3600, 86400}

RestartDelays == {30, 200}
MaxRestartsValues == {1, 2}

----------------------------------------------------------------------------
(* Logging: _log_info, _log_warning, _log_error *)

InfoMsgs == {"stop_requested", "graceful_attempt", "graceful_done",
             "service_stopped", "service_starting", "monitoring_started",
             "execution_completed", "starting_server", "server_started",
             "monitor_thread_started", "auto_restart_disabled",
             "monitor_thread_stopped", "restarting_in", "restart_success",
             "config_loaded", "logging_initialized"}

WarningMsgs == {"forced_termination", "memory_exceeds", "high_cpu",
                "process_info_error"}

ErrorMsgs == {"shutdown_error", "execution_error", "start_failed",
              "process_terminated", "monitoring_error",
              "max_restarts_exceeded", "restart_failed", "process_gone",
              "health_check_error", "config_load_failed",
              "logging_setup_failed"}

Severity(m) ==
    IF m \in InfoMsgs THEN "info"
    ELSE IF m \in WarningMsgs THEN "warning" ELSE "error"

----------------------------------------------------------------------------
(* Pure functions *)

Min(a, b) == IF a < b THEN a ELSE b

(* the backoff with the exponent one too high *)
RestartDelayExponent(base, n) == Min(base * (2 ^ n), MaxRestartDelay)

(* the backoff without the cap *)
RestartDelayNoCap(base, n) == base * (2 ^ (n - 1))

(* line 419: min(base_delay * (2 ** (self.restart_count - 1)), 300) *)
RestartDelay(base, n) == Min(base * (2 ^ (n - 1)), MaxRestartDelay)

(* timedelta.seconds: the seconds field of a normalised timedelta, which
   leaves out whole days *)
TimedeltaSeconds(d) == d % DaySeconds

(* the window check that counts a restart within the window twice *)
NextRestartCountSkips(count, last, t) ==
    IF last # NoTime /\ TimedeltaSeconds(t - last) < restart_window
    THEN count + 2
    ELSE 1

(* lines 403-408: the restart count after the window check *)
NextRestartCount(count, last, t) ==
    IF last # NoTime /\ TimedeltaSeconds(t - last) < restart_window
    THEN count + 1
    ELSE 1

MonitorAlive == pc["mon"] \notin {"unborn", "done"}

(* _get_service_status, line 476: the 'status' entry *)
GetServiceStatus == IF is_alive THEN "Running" ELSE "Stopped"

(* a step of thread t that writes the log entries msgs, makes the process
   calls sigs and assigns the fields fs *)
Step(t, msgs, sigs, fs) ==
    /\ actor' = t
    /\ logged' = msgs
    /\ sent' = sigs
    /\ wrote' = fs

(* no call of _start_server yet *)
NoLaunch ==
    [outcome |-> "none", script |-> NoScript, cmd |-> <<>>,
     started |-> <<>>, env |-> {}]

(* the dict of _get_service_status before any call *)
NoStatus ==
    [phase |-> "idle", status |-> "", restart_count |-> 0,
     last_restart |-> None, server_process |-> None]

(* no handler was awaited *)
NoCall == [name |-> "none", exit |-> "none"]

(* the result of a function that has not ended *)
NoResult == [kind |-> "none", value |-> <<>>]

(* no MCP server function is called *)
McpIdle ==
    /\ fn = "none"
    /\ server = "none"
    /\ tool = ""
    /\ arguments = {}
    /\ handler = NoCall
    /\ tempfiles = {}
    /\ script_path = NoScript
    /\ environ = [v \in {"OPENAI_API_KEY", "CHATGPT_COOKIE"} |-> <<>>]
    /\ mpc = "idle"
    /\ attempt = 0
    /\ history = <<>>
    /\ result = NoResult

----------------------------------------------------------------------------
(* __init__ has returned *)
AfterInit == [at |-> "constructed", path |-> 0]

(* the fields that lines 76-84 of __init__ assign, no thread started *)
ServiceState ==
    /\ is_alive = TRUE
    /\ server_process = 0
    /\ monitor_thread = FALSE
    /\ restart_count = 0
    /\ last_restart = NoTime
    /\ hWaitStop = FALSE
    /\ pc = [t \in Threads |-> IF t = "main" THEN "SvcDoRun"
                               ELSE IF t = "scm" THEN "idle" ELSE "unborn"]
    /\ current_time = NoTime
    /\ pending_delay = 0
    /\ running = {}
    /\ launched = 0
    /\ now = 0
    /\ wakes = 0
    /\ jumps = 0
    /\ decisions = <<>>
    /\ stops = 0
    /\ checks = 0
    /\ errors = 0
    /\ actor = "none"
    /\ logged = <<>>
    /\ sent = {}
    /\ wrote = {}
    /\ status = NoStatus
    /\ launch = NoLaunch

(* the service object after __init__, with the configuration it is given;
   the configuration files are not followed *)
Constructed ==
    /\ ServiceState
    /\ config_files = <<>>
    /\ cpc = AfterInit
    /\ logger = TRUE

Init ==
    /\ auto_restart \in BOOLEAN
    /\ enable_monitoring \in BOOLEAN
    /\ max_restarts \in MaxRestartsValues
    /\ restart_delay \in RestartDelays
    /\ exists = {Unobserved}
    /\ api_key = Unobserved
    /\ McpIdle
    /\ Constructed

(* the default configuration (lines 134-139): auto_restart = true,
   restart_delay = 30, max_restarts = 5, enable_monitoring = true *)
InitBackoff ==
    /\ auto_restart = TRUE
    /\ enable_monitoring = TRUE
    /\ max_restarts = 5
    /\ restart_delay = 30
    /\ exists = {Unobserved}
    /\ api_key = Unobserved
    /\ McpIdle
    /\ Constructed

----------------------------------------------------------------------------
(* The worker processes *)

LaunchOutcomes == {"ok", "missing", "spawn_error"}

(* _start_server, lines 306-367: what it logs for each outcome.  A missing
   script raises before the command is logged (line 327), a failed Popen
   after it (line 354). *)
StartServerLog(outcome) ==
    IF outcome = "ok" THEN <<"starting_server", "server_started">>
    ELSE IF outcome = "missing" THEN <<"start_failed">>
    ELSE <<"starting_server", "start_failed">>

(* the process calls of _start_server: the launch of the next pid *)
StartServerSent(outcome) ==
    IF outcome = "ok"
    THEN {[op |-> "launch", pid |-> launched + 1, live |-> TRUE]}
    ELSE {}

(* line 309: self.server_script, the path chosen by __init__ *)
ConfiguredScript == "server_script"

(* lines 313-320 *)
AlternativePaths ==
    <<"install_path/mcp_ghidra_server_windows.py",
      "service/../src/mcp_ghidra_server_windows.py",
      "service/../mcp_ghidra_server_windows.py",
      "install_path/src/ghidra_gpt5_mcp.py",
      "service/../src/ghidra_gpt5_mcp.py">>

ScriptPaths == {ConfiguredScript} \cup Range(AlternativePaths)

(* the for loop with the opposite order: the last path of paths[i..] that is
   present is taken *)
RECURSIVE LastExisting(_, _, _)
LastExisting(paths, i, present) ==
    IF i > Len(paths) THEN NoScript
    ELSE IF LastExisting(paths, i + 1, present) # NoScript
         THEN LastExisting(paths, i + 1, present)
    ELSE IF paths[i] \in present THEN paths[i]
    ELSE NoScript

(* lines 322-327, the for loop from index i on: the first path of paths[i..]
   that is present breaks the loop; the else branch of the loop raises *)
RECURSIVE FirstExisting(_, _, _)
FirstExisting(paths, i, present) ==
    IF i > Len(paths) THEN NoScript
    ELSE IF paths[i] \in present THEN paths[i]
    ELSE FirstExisting(paths, i + 1, present)

(* lines 309-327: the script _start_server settles on when the paths in
   present exist, NoScript when it raises FileNotFoundError *)
ServerScript(present) ==
    IF ConfiguredScript \in present THEN ConfiguredScript
    ELSE FirstExisting(AlternativePaths, 1, present)

(* line 308: sys.executable *)
python_exe == "python.exe"

(* line 351 *)
StartServerCmd(script) == <<python_exe, script>>

(* ' '.join(cmd), line 352: the items of cmd with a blank between them *)
RECURSIVE Join(_)
Join(cmd) ==
    IF Len(cmd) = 0 THEN <<>>
    ELSE IF Len(cmd) = 1 THEN cmd
    ELSE <<Head(cmd), " ">> \o Join(Tail(cmd))

(* lines 331-343: the variables that env.update assigns, each with the
   configuration entry its value is read from *)
ConfigEnv ==
    {<<"GHIDRA_HEADLESS_PATH", "server.ghidra_path">>,
     <<"GHIDRA_PROJECT_DIR", "paths.project_dir">>,
     <<"MCP_GHIDRA5_HOST", "server.host">>,
     <<"MCP_GHIDRA5_PORT", "server.port">>,
     <<"MCP_GHIDRA5_LOG_LEVEL", "server.log_level">>,
     <<"GHIDRA_INSTALL_DIR", "server.ghidra_path">>}

(* the key assigned whatever its value *)
StartServerEnvAlways(key) == ConfigEnv \cup {<<"OPENAI_API_KEY", key>>}

(* lines 330-348: the assignments _start_server makes on its copy of
   os.environ; the key is assigned when it is a non-empty string *)
StartServerEnv(key) ==
    IF key # "" THEN ConfigEnv \cup {<<"OPENAI_API_KEY", key>>}
    ELSE ConfigEnv

(* lines 306-363: what a call of _start_server with the given outcome works
   out: the script, the command line and the environment handed to Popen
   (lines 354-356) and the command in the 'Starting server' log entry
   (line 352).  A missing script raises before any of them is built. *)
StartServerLaunch(outcome) ==
    IF outcome = "missing" THEN [NoLaunch EXCEPT !.outcome = outcome]
    ELSE [outcome |-> outcome,
          script |-> ServerScript(exists),
          cmd |-> StartServerCmd(ServerScript(exists)),
          started |-> Join(StartServerCmd(ServerScript(exists))),
          env |-> StartServerEnv(api_key)]

(* the launch that leaves the old handle in self.server_process *)
StartServerKeepsHandle(outcome, run) ==
    /\ Unobserved \notin exists
         => (outcome = "missing" <=> ServerScript(exists) = NoScript)
    /\ launch' = IF Unobserved \in exists THEN launch
                 ELSE StartServerLaunch(outcome)
    /\ IF outcome = "ok"
       THEN /\ launched < max_restarts + ExtraProcs
            /\ launched' = launched + 1
            /\ server_process' = server_process
            /\ running' = run \cup {launched + 1}
       ELSE /\ running' = run
            /\ UNCHANGED <<server_process, launched>>

(* _start_server, lines 306-363, called when the processes in run are
   running: a new process is spawned and installed in self.server_process;
   on failure nothing is spawned or installed.  Where the file system is
   followed, the script is missing exactly when no searched path exists. *)
StartServer(outcome, run) ==
    /\ Unobserved \notin exists
         => (outcome = "missing" <=> ServerScript(exists) = NoScript)
    /\ launch' = IF Unobserved \in exists THEN launch
                 ELSE StartServerLaunch(outcome)
    /\ IF outcome = "ok"
       THEN /\ launched < max_restarts + ExtraProcs
            /\ launched' = launched + 1
            /\ server_process' = launched + 1
            /\ running' = run \cup {launched + 1}
       ELSE /\ running' = run
            /\ UNCHANGED <<server_process, launched>>

(* a server script is removed from the disk *)
ScriptRemoved(p) ==
    /\ p \in exists
    /\ exists' = exists \ {p}
    /\ UNCHANGED <<config, api_key, mcp, launch, status, is_alive, server_process,
                   monitor_thread, restart_count, last_restart, hWaitStop, pc,
                   current_time, pending_delay, running, launched, now, wakes,
                   jumps, decisions, stops, checks, errors, step>>

(* a running worker exits: it crashes, or it ends after a terminate() *)
WorkerExit(p) ==
    /\ p \in running
    /\ running' = running \ {p}
    /\ UNCHANGED <<config, others, is_alive, server_process, monitor_thread,
                   restart_count, last_restart, hWaitStop, pc, current_time,
                   pending_delay, launched, now, wakes, jumps, decisions,
                   stops, checks, errors, step>>

----------------------------------------------------------------------------
(* SvcDoRun, lines 266-302, on thread "main" *)

(* lines 268-272 *)
SvcDoRunBegin ==
    /\ pc["main"] = "SvcDoRun"
    /\ pc' = [pc EXCEPT !["main"] = "start_server"]
    /\ Step("main", <<"service_starting">>, {}, {})
    /\ UNCHANGED <<config, others, is_alive, server_process, monitor_thread,
                   restart_count, last_restart, hWaitStop, current_time,
                   pending_delay, running, launched, now, wakes, jumps,
                   decisions, stops, checks, errors>>

(* line 275; when _start_server raises, lines 298-302 log the error and
   SvcDoRun raises *)
SvcDoRunStartServer(outcome) ==
    /\ pc["main"] = "start_server"
    /\ StartServer(outcome, running)
    /\ IF outcome = "ok"
       THEN /\ pc' = [pc EXCEPT !["main"] = "start_monitor"]
            /\ Step("main", StartServerLog(outcome), StartServerSent(outcome),
                    {"server_process"})
       ELSE /\ pc' = [pc EXCEPT !["main"] = "raised"]
            /\ Step("main", StartServerLog(outcome)
                            \o <<"execution_error", "execution_completed">>,
                    {}, {})
    /\ UNCHANGED <<config, inputs, mcp, status, is_alive, monitor_thread, restart_count,
                   last_restart, hWaitStop, current_time, pending_delay, now,
                   wakes, jumps, decisions, stops, checks, errors>>

(* lines 278-281: when enable_monitoring is set, the monitor thread is
   created and started *)
SvcDoRunStartMonitor ==
    /\ pc["main"] = "start_monitor"
    /\ IF enable_monitoring
       THEN /\ monitor_thread' = TRUE
            /\ pc' = [pc EXCEPT !["main"] = "main_loop",
                                !["mon"] = "monitor_server"]
            /\ Step("main", <<"monitoring_started">>, {}, {})
       ELSE /\ pc' = [pc EXCEPT !["main"] = "main_loop"]
            /\ Step("main", <<>>, {}, {})
            /\ UNCHANGED monitor_thread
    /\ UNCHANGED <<config, others, is_alive, server_process, restart_count,
                   last_restart, hWaitStop, current_time, pending_delay,
                   running, launched, now, wakes, jumps, decisions, stops,
                   checks, errors>>

(* line 284: the loop test; when is_alive is false the loop ends and
   line 302 logs *)
SvcDoRunLoopTest ==
    /\ pc["main"] = "main_loop"
    /\ pc' = [pc EXCEPT !["main"] = IF is_alive THEN "main_wait" ELSE "done"]
    /\ Step("main", IF is_alive THEN <<>> ELSE <<"execution_completed">>, {}, {})
    /\ UNCHANGED <<config, others, is_alive, server_process, monitor_thread,
                   restart_count, last_restart, hWaitStop, current_time,
                   pending_delay, running, launched, now, wakes, jumps,
                   decisions, stops, checks, errors>>

(* the wait that returns on the stop event without leaving the loop *)
SvcDoRunStopEventContinues ==
    /\ pc["main"] = "main_wait"
    /\ hWaitStop
    /\ hWaitStop' = FALSE
    /\ pc' = [pc EXCEPT !["main"] = "main_loop"]
    /\ Step("main", <<>>, {}, {})
    /\ UNCHANGED <<config, others, is_alive, server_process, monitor_thread,
                   restart_count, last_restart, current_time, pending_delay,
                   running, launched, now, wakes, jumps, decisions, stops,
                   checks, errors>>

(* lines 286-293 and 302: the wait returns because the stop event is
   signaled; the event is auto-reset (line 77), so the wait consumes the
   signal *)
SvcDoRunStopEvent ==
    /\ pc["main"] = "main_wait"
    /\ hWaitStop
    /\ hWaitStop' = FALSE
    /\ pc' = [pc EXCEPT !["main"] = "done"]
    /\ Step("main", <<"execution_completed">>, {}, {})
    /\ UNCHANGED <<config, others, is_alive, server_process, monitor_thread,
                   restart_count, last_restart, current_time, pending_delay,
                   running, launched, now, wakes, jumps, decisions, stops,
                   checks, errors>>

(* what the health check finds of a running worker: within the limits,
   memory above max_memory_mb, CPU above 80 %, both, psutil.NoSuchProcess,
   another psutil error, an exception outside the psutil calls *)
HealthSamples == {"ok", "memory", "cpu", "memory_cpu", "gone", "info_error",
                  "check_error"}

(* lines 443-469: what _periodic_health_check logs; it samples only a
   worker whose poll() is None *)
HealthCheckLog(sample) ==
    IF server_process = 0 \/ server_process \notin running THEN <<>>
    ELSE IF sample = "memory" THEN <<"memory_exceeds">>
    ELSE IF sample = "cpu" THEN <<"high_cpu">>
    ELSE IF sample = "memory_cpu" THEN <<"memory_exceeds", "high_cpu">>
    ELSE IF sample = "gone" THEN <<"process_gone">>
    ELSE IF sample = "info_error" THEN <<"process_info_error">>
    ELSE IF sample = "check_error" THEN <<"health_check_error">>
    ELSE <<>>

(* the health check that kills a worker whose memory is above the limit *)
SvcDoRunHealthCheckKills(sample) ==
    /\ pc["main"] = "main_wait"
    /\ ~hWaitStop
    /\ checks' = Min(checks + 1, MaxChecks)
    /\ pc' = [pc EXCEPT !["main"] = "main_loop"]
    /\ IF "memory_exceeds" \in {HealthCheckLog(sample)[i] :
                                  i \in 1..Len(HealthCheckLog(sample))}
       THEN /\ running' = running \ {server_process}
            /\ Step("main", HealthCheckLog(sample),
                    {[op |-> "kill", pid |-> server_process, live |-> TRUE]},
                    {})
       ELSE /\ UNCHANGED running
            /\ Step("main", HealthCheckLog(sample), {}, {})
    /\ UNCHANGED <<config, others, is_alive, server_process, monitor_thread,
                   restart_count, last_restart, hWaitStop, current_time,
                   pending_delay, launched, now, wakes, jumps, decisions,
                   stops, errors>>

(* lines 286-296: the wait times out after 30 s and
   _periodic_health_check (lines 441-469) runs *)
SvcDoRunHealthCheck(sample) ==
    /\ pc["main"] = "main_wait"
    /\ ~hWaitStop
    /\ checks' = Min(checks + 1, MaxChecks)
    /\ pc' = [pc EXCEPT !["main"] = "main_loop"]
    /\ Step("main", HealthCheckLog(sample), {}, {})
    /\ UNCHANGED <<config, others, is_alive, server_process, monitor_thread,
                   restart_count, last_restart, hWaitStop, current_time,
                   pending_delay, running, launched, now, wakes, jumps,
                   decisions, stops, errors>>

----------------------------------------------------------------------------
(* SvcStop, lines 228-264, run by thread t: the control handler "scm", or
   the monitor thread "mon" (lines 384 and 414) *)

StopPcs == {"SvcStop", "stop_terminate", "stop_wait", "stop_join", "stop_end"}

(* the control handler receives a stop control once the service has
   reported that it is running (line 272) *)
ControlStop ==
    /\ pc["scm"] = "idle"
    /\ pc["main"] # "SvcDoRun"
    /\ stops < MaxStops
    /\ pc' = [pc EXCEPT !["scm"] = "SvcStop"]
    /\ Step("scm", <<>>, {}, {})
    /\ UNCHANGED <<config, others, is_alive, server_process, monitor_thread,
                   restart_count, last_restart, hWaitStop, current_time,
                   pending_delay, running, launched, now, wakes, jumps,
                   decisions, stops, checks, errors>>

(* the stop signal that also resets the restart accounting *)
SvcStopSignalResets(t) ==
    /\ pc[t] = "SvcStop"
    /\ hWaitStop' = TRUE
    /\ is_alive' = FALSE
    /\ restart_count' = 0
    /\ pc' = [pc EXCEPT ![t] = "stop_terminate"]
    /\ Step(t, <<"stop_requested">>, {}, {"is_alive", "restart_count"})
    /\ UNCHANGED <<config, others, server_process, monitor_thread, last_restart,
                   current_time, pending_delay, running, launched, now, wakes,
                   jumps, decisions, stops, checks, errors>>

(* lines 230-237: the stop signal *)
SvcStopSignal(t) ==
    /\ pc[t] = "SvcStop"
    /\ hWaitStop' = TRUE
    /\ is_alive' = FALSE
    /\ pc' = [pc EXCEPT ![t] = "stop_terminate"]
    /\ Step(t, <<"stop_requested">>, {}, {"is_alive"})
    /\ UNCHANGED <<config, others, server_process, monitor_thread, restart_count,
                   last_restart, current_time, pending_delay, running,
                   launched, now, wakes, jumps, decisions, stops, checks,
                   errors>>

(* lines 239-246: terminate() on the current handle, if there is one *)
SvcStopTerminate(t) ==
    /\ pc[t] = "stop_terminate"
    /\ IF server_process # 0
       THEN /\ pc' = [pc EXCEPT ![t] = "stop_wait"]
            /\ Step(t, <<"graceful_attempt">>,
                    {[op |-> "terminate", pid |-> server_process,
                      live |-> server_process \in running]}, {})
       ELSE /\ pc' = [pc EXCEPT ![t] = "stop_join"]
            /\ Step(t, <<>>, {}, {})
    /\ UNCHANGED <<config, others, is_alive, server_process, monitor_thread,
                   restart_count, last_restart, hWaitStop, current_time,
                   pending_delay, running, launched, now, wakes, jumps,
                   decisions, stops, checks, errors>>

(* the wait that reports the timeout as an error and leaves the worker *)
SvcStopWaitNoKill(t) ==
    /\ pc[t] = "stop_wait"
    /\ IF server_process \notin running
       THEN Step(t, <<"graceful_done">>, {}, {})
       ELSE Step(t, <<"shutdown_error">>, {}, {})
    /\ pc' = [pc EXCEPT ![t] = "stop_join"]
    /\ UNCHANGED <<config, others, is_alive, server_process, monitor_thread,
                   restart_count, last_restart, hWaitStop, current_time,
                   pending_delay, running, launched, now, wakes, jumps,
                   decisions, stops, checks, errors>>

(* lines 249-255: wait(timeout=shutdown_timeout) on the current handle.  It
   returns once that process has exited; while the process runs it ends by
   TimeoutExpired, and kill() is called on the current handle. *)
SvcStopWait(t) ==
    /\ pc[t] = "stop_wait"
    /\ IF server_process \notin running
       THEN /\ Step(t, <<"graceful_done">>, {}, {})
            /\ UNCHANGED running
       ELSE /\ Step(t, <<"forced_termination">>,
                    {[op |-> "kill", pid |-> server_process, live |-> TRUE]}, {})
            /\ running' = running \ {server_process}
    /\ pc' = [pc EXCEPT ![t] = "stop_join"]
    /\ UNCHANGED <<config, others, is_alive, server_process, monitor_thread,
                   restart_count, last_restart, hWaitStop, current_time,
                   pending_delay, launched, now, wakes, jumps, decisions,
                   stops, checks, errors>>

(* lines 261-262: join(timeout=5) on the monitor thread.  It returns when
   the monitor thread has finished, or after the timeout while it has not.
   On the monitor thread itself join raises RuntimeError, which leaves
   SvcStop and its caller and is caught at lines 391-392. *)
SvcStopJoin(t, timed_out) ==
    /\ pc[t] = "stop_join"
    /\ IF monitor_thread /\ MonitorAlive
       THEN IF t = "mon"
            THEN /\ ~timed_out
                 /\ pc' = [pc EXCEPT ![t] = "error_sleep"]
                 /\ Step(t, <<"monitoring_error">>, {}, {})
            ELSE /\ timed_out
                 /\ pc' = [pc EXCEPT ![t] = "stop_end"]
                 /\ Step(t, <<>>, {}, {})
       ELSE /\ ~timed_out
            /\ pc' = [pc EXCEPT ![t] = "stop_end"]
            /\ Step(t, <<>>, {}, {})
    /\ UNCHANGED <<config, others, is_alive, server_process, monitor_thread,
                   restart_count, last_restart, hWaitStop, current_time,
                   pending_delay, running, launched, now, wakes, jumps,
                   decisions, stops, checks, errors>>

(* line 264, and the return to the control handler (the monitor thread
   never gets here: its join raises) *)
SvcStopEnd(t) ==
    /\ pc[t] = "stop_end"
    /\ t = "scm"
    /\ pc' = [pc EXCEPT ![t] = "idle"]
    /\ stops' = stops + 1
    /\ Step(t, <<"service_stopped">>, {}, {})
    /\ UNCHANGED <<config, others, is_alive, server_process, monitor_thread,
                   restart_count, last_restart, hWaitStop, current_time,
                   pending_delay, running, launched, now, wakes, jumps,
                   decisions, checks, errors>>

----------------------------------------------------------------------------
(* _monitor_server, lines 369-395, on thread "mon" *)

(* line 371 *)
MonitorBegin ==
    /\ pc["mon"] = "monitor_server"
    /\ pc' = [pc EXCEPT !["mon"] = "monitor_loop"]
    /\ Step("mon", <<"monitor_thread_started">>, {}, {})
    /\ UNCHANGED <<config, others, is_alive, server_process, monitor_thread,
                   restart_count, last_restart, hWaitStop, current_time,
                   pending_delay, running, launched, now, wakes, jumps,
                   decisions, stops, checks, errors>>

(* the poll that hands every exit to the restart handling, whatever
   auto_restart says *)
MonitorLoopAlwaysRestarts ==
    /\ pc["mon"] = "monitor_loop"
    /\ IF ~is_alive
       THEN /\ pc' = [pc EXCEPT !["mon"] = "done"]
            /\ Step("mon", <<"monitor_thread_stopped">>, {}, {})
       ELSE IF server_process # 0 /\ server_process \notin running
       THEN /\ pc' = [pc EXCEPT !["mon"] = "handle_restart"]
            /\ Step("mon", <<"process_terminated">>, {}, {})
       ELSE /\ pc' = [pc EXCEPT !["mon"] = "health_sleep"]
            /\ Step("mon", <<>>, {}, {})
    /\ UNCHANGED <<config, others, is_alive, server_process, monitor_thread,
                   restart_count, last_restart, hWaitStop, current_time,
                   pending_delay, running, launched, now, wakes, jumps,
                   decisions, stops, checks, errors>>

(* lines 373-385 and 395: the loop test and the poll of the worker *)
MonitorLoop ==
    /\ pc["mon"] = "monitor_loop"
    /\ IF ~is_alive
       THEN /\ pc' = [pc EXCEPT !["mon"] = "done"]
            /\ Step("mon", <<"monitor_thread_stopped">>, {}, {})
       ELSE IF server_process # 0 /\ server_process \notin running
       THEN IF auto_restart
            THEN /\ pc' = [pc EXCEPT !["mon"] = "handle_restart"]
                 /\ Step("mon", <<"process_terminated">>, {}, {})
            ELSE /\ pc' = [pc EXCEPT !["mon"] = "SvcStop"]
                 /\ Step("mon", <<"process_terminated",
                                  "auto_restart_disabled">>, {}, {})
       ELSE /\ pc' = [pc EXCEPT !["mon"] = "health_sleep"]
            /\ Step("mon", <<>>, {}, {})
    /\ UNCHANGED <<config, others, is_alive, server_process, monitor_thread,
                   restart_count, last_restart, hWaitStop, current_time,
                   pending_delay, running, launched, now, wakes, jumps,
                   decisions, stops, checks, errors>>

(* lines 374-392: a statement of the loop body raises (poll(), a
   configuration lookup); the exception is caught and logged *)
MonitorLoopError ==
    /\ pc["mon"] = "monitor_loop"
    /\ is_alive
    /\ errors < MaxErrors
    /\ errors' = errors + 1
    /\ pc' = [pc EXCEPT !["mon"] = "error_sleep"]
    /\ Step("mon", <<"monitoring_error">>, {}, {})
    /\ UNCHANGED <<config, others, is_alive, server_process, monitor_thread,
                   restart_count, last_restart, hWaitStop, current_time,
                   pending_delay, running, launched, now, wakes, jumps,
                   decisions, stops, checks>>

(* the sleeps of the monitor thread that the model follows *)
MaxWakes == 2 * max_restarts + ExtraWakes

(* lines 388-389: time.sleep(interval) *)
MonitorSleep ==
    /\ pc["mon"] = "health_sleep"
    /\ wakes < MaxWakes
    /\ wakes' = wakes + 1
    /\ now' = now + health_check_interval
    /\ pc' = [pc EXCEPT !["mon"] = "monitor_loop"]
    /\ Step("mon", <<>>, {}, {})
    /\ UNCHANGED <<config, others, is_alive, server_process, monitor_thread,
                   restart_count, last_restart, hWaitStop, current_time,
                   pending_delay, running, launched, jumps, decisions, stops,
                   checks, errors>>

(* lines 373-389 repeated idle / health_check_interval times while the
   service is alive and the worker runs: every iteration polls, finds the
   worker running and sleeps; only the clock changes *)
MonitorIdle(idle) ==
    /\ pc["mon"] = "monitor_loop"
    /\ is_alive
    /\ server_process \in running
    /\ jumps < MaxJumps
    /\ jumps' = jumps + 1
    /\ now' = now + idle
    /\ Step("mon", <<>>, {}, {})
    /\ UNCHANGED <<config, others, is_alive, server_process, monitor_thread,
                   restart_count, last_restart, hWaitStop, pc, current_time,
                   pending_delay, running, launched, wakes, decisions, stops,
                   checks, errors>>

(* the error sleep after which the monitor thread ends *)
MonitorErrorSleepExits ==
    /\ pc["mon"] = "error_sleep"
    /\ now' = now + ErrorSleep
    /\ pc' = [pc EXCEPT !["mon"] = "done"]
    /\ Step("mon", <<"monitor_thread_stopped">>, {}, {})
    /\ UNCHANGED <<config, others, is_alive, server_process, monitor_thread,
                   restart_count, last_restart, hWaitStop, current_time,
                   pending_delay, running, launched, wakes, jumps, decisions,
                   stops, checks, errors>>

(* line 393: time.sleep(30) after a monitoring error *)
MonitorErrorSleep ==
    /\ pc["mon"] = "error_sleep"
    /\ now' = now + ErrorSleep
    /\ pc' = [pc EXCEPT !["mon"] = "monitor_loop"]
    /\ Step("mon", <<>>, {}, {})
    /\ UNCHANGED <<config, others, is_alive, server_process, monitor_thread,
                   restart_count, last_restart, hWaitStop, current_time,
                   pending_delay, running, launched, wakes, jumps, decisions,
                   stops, checks, errors>>

----------------------------------------------------------------------------
(* _handle_server_restart, lines 397-439, on thread "mon" *)

(* the restart decision that, when the policy denies, logs and goes on
   monitoring *)
HandleServerRestartNoStop ==
    /\ pc["mon"] = "handle_restart"
    /\ Len(decisions) < max_restarts + ExtraDecisions
    /\ LET n == NextRestartCount(restart_count, last_restart, now)
           allow == ~(n > max_restarts)
           delay == IF allow THEN RestartDelay(restart_delay, n) ELSE 0
       IN  /\ current_time' = now
           /\ restart_count' = n
           /\ pending_delay' = delay
           /\ decisions' = Append(decisions,
                                  [at |-> now, before |-> restart_count,
                                   last |-> last_restart, count |-> n,
                                   allow |-> allow, delay |-> delay,
                                   procs |-> launched, alive |-> is_alive])
           /\ IF allow
              THEN /\ pc' = [pc EXCEPT !["mon"] = "restart_delay"]
                   /\ Step("mon", <<"restarting_in">>, {}, {"restart_count"})
              ELSE /\ pc' = [pc EXCEPT !["mon"] = "health_sleep"]
                   /\ Step("mon", <<"max_restarts_exceeded">>, {},
                           {"restart_count"})
    /\ UNCHANGED <<config, others, is_alive, server_process, monitor_thread,
                   last_restart, hWaitStop, running, launched, now, wakes,
                   jumps, stops, checks, errors>>

(* lines 399-421: the restart decision *)
HandleServerRestart ==
    /\ pc["mon"] = "handle_restart"
    /\ Len(decisions) < max_restarts + ExtraDecisions
    /\ LET n == NextRestartCount(restart_count, last_restart, now)
           allow == ~(n > max_restarts)
           delay == IF allow THEN RestartDelay(restart_delay, n) ELSE 0
       IN  /\ current_time' = now
           /\ restart_count' = n
           /\ pending_delay' = delay
           /\ decisions' = Append(decisions,
                                  [at |-> now, before |-> restart_count,
                                   last |-> last_restart, count |-> n,
                                   allow |-> allow, delay |-> delay,
                                   procs |-> launched, alive |-> is_alive])
           /\ IF allow
              THEN /\ pc' = [pc EXCEPT !["mon"] = "restart_delay"]
                   /\ Step("mon", <<"restarting_in">>, {}, {"restart_count"})
              ELSE /\ pc' = [pc EXCEPT !["mon"] = "SvcStop"]
                   /\ Step("mon", <<"max_restarts_exceeded">>, {},
                           {"restart_count"})
    /\ UNCHANGED <<config, others, is_alive, server_process, monitor_thread,
                   last_restart, hWaitStop, running, launched, now, wakes,
                   jumps, stops, checks, errors>>

(* lines 426-430: kill() on the old handle *)
KillOld ==
    IF server_process # 0
    THEN {[op |-> "kill", pid |-> server_process,
           live |-> server_process \in running]}
    ELSE {}

(* lines 422-439: the delay is slept in full, the old handle is killed and
   the worker is launched; a failed launch is caught and logged *)
HandleServerRestartLaunch(outcome) ==
    /\ pc["mon"] = "restart_delay"
    /\ wakes < MaxWakes
    /\ wakes' = wakes + 1
    /\ now' = now + pending_delay
    /\ StartServer(outcome, running \ {server_process})
    /\ IF outcome = "ok"
       THEN /\ last_restart' = current_time
            /\ Step("mon", StartServerLog(outcome) \o <<"restart_success">>,
                    KillOld \cup StartServerSent(outcome),
                    {"server_process", "last_restart"})
       ELSE /\ Step("mon", StartServerLog(outcome) \o <<"restart_failed">>,
                    KillOld, {})
            /\ UNCHANGED last_restart
    /\ pc' = [pc EXCEPT !["mon"] = "health_sleep"]
    /\ UNCHANGED <<config, inputs, mcp, status, is_alive, monitor_thread, restart_count, hWaitStop,
                   current_time, pending_delay, jumps, decisions, stops,
                   checks, errors>>

----------------------------------------------------------------------------
Next ==
    \/ \E p \in 1..launched : WorkerExit(p)
    \/ SvcDoRunBegin
    \/ \E outcome \in LaunchOutcomes : SvcDoRunStartServer(outcome)
    \/ SvcDoRunStartMonitor
    \/ SvcDoRunLoopTest
    \/ SvcDoRunStopEvent
    \/ \E sample \in HealthSamples : SvcDoRunHealthCheck(sample)
    \/ ControlStop
    \/ \E t \in {"scm", "mon"} : SvcStopSignal(t)
    \/ \E t \in {"scm", "mon"} : SvcStopTerminate(t)
    \/ \E t \in {"scm", "mon"} : SvcStopWait(t)
    \/ \E t \in {"scm", "mon"}, timed_out \in BOOLEAN : SvcStopJoin(t, timed_out)
    \/ SvcStopEnd("scm")
    \/ MonitorBegin
    \/ MonitorLoop
    \/ MonitorLoopError
    \/ MonitorSleep
    \/ \E idle \in IdlePeriods : MonitorIdle(idle)
    \/ MonitorErrorSleep
    \/ HandleServerRestart
    \/ \E outcome \in LaunchOutcomes : HandleServerRestartLaunch(outcome)

Spec == Init /\ [][Next]_vars

(* the service under its default configuration, with no idle period, no
   periodic health check and no exception in the monitor loop: the worker
   crashes and is restarted in a row *)
NextBackoff ==
    \/ \E p \in 1..launched : WorkerExit(p)
    \/ SvcDoRunBegin
    \/ \E outcome \in LaunchOutcomes : SvcDoRunStartServer(outcome)
    \/ SvcDoRunStartMonitor
    \/ SvcDoRunLoopTest
    \/ SvcDoRunStopEvent
    \/ ControlStop
    \/ \E t \in {"scm", "mon"} : SvcStopSignal(t)
    \/ \E t \in {"scm", "mon"} : SvcStopTerminate(t)
    \/ \E t \in {"scm", "mon"} : SvcStopWait(t)
    \/ \E t \in {"scm", "mon"}, timed_out \in BOOLEAN : SvcStopJoin(t, timed_out)
    \/ SvcStopEnd("scm")
    \/ MonitorBegin
    \/ MonitorLoop
    \/ MonitorSleep
    \/ MonitorErrorSleep
    \/ HandleServerRestart
    \/ \E outcome \in LaunchOutcomes : HandleServerRestartLaunch(outcome)

SpecBackoff == InitBackoff /\ [][NextBackoff]_vars

----------------------------------------------------------------------------
(* _get_service_status, lines 471-496, called by a monitoring tool on a
   thread of its own *)

(* datetime.isoformat: the date and the time of day, written apart *)
IsoFormat(t) == <<t \div DaySeconds, t % DaySeconds>>

(* what psutil answers about the worker: its metrics, NoSuchProcess, or
   another exception *)
Metrics == {"ok", "no_such_process", "error"}

(* the dict literal that also clears restart_count *)
GetServiceStatusBeginResets ==
    /\ status.phase # "literal"
    /\ status' = [phase |-> "literal",
                  status |-> GetServiceStatus,
                  restart_count |-> 0,
                  last_restart |-> IF last_restart # NoTime
                                   THEN IsoFormat(last_restart) ELSE None,
                  server_process |-> None]
    /\ restart_count' = 0
    /\ UNCHANGED <<config, inputs, mcp, launch, is_alive, server_process,
                   monitor_thread, last_restart, hWaitStop, pc,
                   current_time, pending_delay, running, launched, now, wakes,
                   jumps, decisions, stops, checks, errors, step>>

(* lines 473-480: the dict literal reads is_alive, restart_count and
   last_restart *)
GetServiceStatusBegin ==
    /\ status.phase # "literal"
    /\ status' = [phase |-> "literal",
                  status |-> GetServiceStatus,
                  restart_count |-> restart_count,
                  last_restart |-> IF last_restart # NoTime
                                   THEN IsoFormat(last_restart) ELSE None,
                  server_process |-> None]
    /\ UNCHANGED <<config, inputs, mcp, launch, is_alive, server_process,
                   monitor_thread, restart_count, last_restart, hWaitStop, pc,
                   current_time, pending_delay, running, launched, now, wakes,
                   jumps, decisions, stops, checks, errors, step>>

(* lines 482-496: with a worker handle held, the metrics of the worker are
   read through psutil; any exception is caught and its text returned in
   an 'error' entry; the dict is returned *)
GetServiceStatusEnd(metrics) ==
    /\ status.phase = "literal"
    /\ status' = [status EXCEPT
                     !.phase = "returned",
                     !.server_process =
                         IF server_process = 0 THEN None
                         ELSE IF metrics = "ok"
                              THEN <<"pid", server_process>>
                         ELSE <<"error">>]
    /\ UNCHANGED <<config, inputs, mcp, launch, is_alive, server_process,
                   monitor_thread, restart_count, last_restart, hWaitStop, pc,
                   current_time, pending_delay, running, launched, now, wakes,
                   jumps, decisions, stops, checks, errors, step>>

(* the service under a configuration that allows one restart, with crashes,
   restarts, idle periods and stop requests, and with status queries
   arriving at any moment *)
InitStatus ==
    /\ auto_restart = TRUE
    /\ enable_monitoring = TRUE
    /\ max_restarts = 1
    /\ restart_delay = 30
    /\ exists = {Unobserved}
    /\ api_key = Unobserved
    /\ McpIdle
    /\ Constructed

NextStatus ==
    \/ NextBackoff
    \/ \E idle \in IdlePeriods : MonitorIdle(idle)
    \/ GetServiceStatusBegin
    \/ \E metrics \in Metrics : GetServiceStatusEnd(metrics)

SpecStatus == InitStatus /\ [][NextStatus]_vars

----------------------------------------------------------------------------
(* the launcher followed on the file system: the service under a
   configuration that allows one restart, with any set of the searched
   scripts on disk and any configured key; the initial launch and the
   relaunch after a crash each run _start_server, and scripts can
   disappear in between *)
ApiKeys == {"", "sk-live", "not-a-key"}

InitLauncher ==
    /\ auto_restart = TRUE
    /\ enable_monitoring = TRUE
    /\ max_restarts = 1
    /\ restart_delay = 30
    /\ exists \in SUBSET ScriptPaths
    /\ api_key \in ApiKeys
    /\ McpIdle
    /\ Constructed

NextLauncher ==
    \/ \E p \in ScriptPaths : ScriptRemoved(p)
    \/ \E p \in 1..launched : WorkerExit(p)
    \/ SvcDoRunBegin
    \/ \E outcome \in LaunchOutcomes : SvcDoRunStartServer(outcome)
    \/ SvcDoRunStartMonitor
    \/ MonitorBegin
    \/ MonitorLoop
    \/ MonitorSleep
    \/ HandleServerRestart
    \/ \E outcome \in LaunchOutcomes : HandleServerRestartLaunch(outcome)

SpecLauncher == InitLauncher /\ [][NextLauncher]_vars

(* the service configured with auto_restart on and enable_monitoring off:
   SvcDoRun starts no monitor thread (line 278), so only the main thread
   and the control handler run.  Each of the two threads keeps running
   while it has a step to take. *)
InitUnmonitored ==
    /\ auto_restart = TRUE
    /\ enable_monitoring = FALSE
    /\ max_restarts \in MaxRestartsValues
    /\ restart_delay \in RestartDelays
    /\ exists = {Unobserved}
    /\ api_key = Unobserved
    /\ McpIdle
    /\ Constructed

SvcDoRunSteps ==
    \/ SvcDoRunBegin
    \/ \E outcome \in LaunchOutcomes : SvcDoRunStartServer(outcome)
    \/ SvcDoRunStartMonitor
    \/ SvcDoRunLoopTest
    \/ SvcDoRunStopEvent
    \/ \E sample \in HealthSamples : SvcDoRunHealthCheck(sample)

SvcStopSteps ==
    \/ SvcStopSignal("scm")
    \/ SvcStopTerminate("scm")
    \/ SvcStopWait("scm")
    \/ SvcStopJoin("scm", FALSE)
    \/ SvcStopEnd("scm")

NextUnmonitored ==
    \/ \E p \in 1..launched : WorkerExit(p)
    \/ SvcDoRunSteps
    \/ ControlStop
    \/ SvcStopSteps

SpecUnmonitored ==
    /\ InitUnmonitored
    /\ [][NextUnmonitored]_vars
    /\ WF_vars(SvcDoRunSteps)
    /\ WF_vars(SvcStopSteps)

(* the service with the monitor thread and auto_restart disabled: the
   service is stopped by a stop control, or by the monitor thread once the
   worker has exited.  Each thread that can take a step eventually takes
   one. *)
InitStopping ==
    /\ auto_restart = FALSE
    /\ enable_monitoring = TRUE
    /\ max_restarts \in MaxRestartsValues
    /\ restart_delay \in RestartDelays
    /\ exists = {Unobserved}
    /\ api_key = Unobserved
    /\ McpIdle
    /\ Constructed

SvcStopStepsOf(t) ==
    \/ SvcStopSignal(t)
    \/ SvcStopTerminate(t)
    \/ SvcStopWait(t)
    \/ \E timed_out \in BOOLEAN : SvcStopJoin(t, timed_out)

MonitorSteps ==
    \/ MonitorBegin
    \/ MonitorLoop
    \/ MonitorLoopError
    \/ MonitorSleep
    \/ MonitorErrorSleep
    \/ SvcStopStepsOf("mon")

NextStopping ==
    \/ \E p \in 1..launched : WorkerExit(p)
    \/ SvcDoRunSteps
    \/ ControlStop
    \/ SvcStopStepsOf("scm")
    \/ SvcStopEnd("scm")
    \/ MonitorSteps

SpecStopping ==
    /\ InitStopping
    /\ [][NextStopping]_vars
    /\ WF_vars(SvcDoRunSteps)
    /\ WF_vars(SvcStopStepsOf("scm"))
    /\ WF_vars(MonitorSteps)

----------------------------------------------------------------------------
(* __init__, lines 72-116, with _load_configuration (lines 118-172) and
   _setup_logging (lines 174-202), on the thread that constructs the
   service.  cpc.at is the statement reached and cpc.path the index of the
   configuration path that the loop of lines 163-170 stands at. *)

(* lines 156-161: the three searched paths *)
ConfigPaths ==
    <<"%PROGRAMDATA%\\MCP-Ghidra5\\service.conf",
      "<service dir>\\service.conf",
      "C:\\Program Files\\MCP-Ghidra5\\config\\service.conf">>

(* what a path holds: nothing, a file that config.read() parses, a file
   on which config.read() raises *)
FileKinds == {"absent", "readable", "unparsable"}

(* the state that __init__ leaves alone *)
outside_init ==
    <<auto_restart, enable_monitoring, max_restarts, restart_delay, is_alive,
      server_process, monitor_thread, restart_count, last_restart, hWaitStop,
      pc, current_time, pending_delay, running, launched, now, wakes, jumps,
      decisions, stops, checks, errors, others, config_files>>

(* lines 163-164 and 172: the loop goes to the next path; after the last
   one _load_configuration returns and line 90 calls _setup_logging *)
LoadConfigurationExists ==
    /\ cpc.at = "exists"
    /\ cpc' = IF cpc.path > Len(ConfigPaths)
              THEN [at |-> "setup_logging", path |-> 0]
              ELSE IF config_files[cpc.path] = "absent"
              THEN [at |-> "exists", path |-> cpc.path + 1]
              ELSE [at |-> "read", path |-> cpc.path]
    /\ Step("main", <<>>, {}, {})
    /\ UNCHANGED <<outside_init, logger>>

(* lines 165-166 and 169: config.read(config_path); what it raises is
   caught by the except clause *)
LoadConfigurationRead ==
    /\ cpc.at = "read"
    /\ cpc' = [cpc EXCEPT !.at = IF config_files[cpc.path] = "readable"
                                 THEN "log_info" ELSE "log_error"]
    /\ Step("main", <<>>, {}, {})
    /\ UNCHANGED <<outside_init, logger>>

(* lines 167-169: self._log_info(...), whose first statement is
   self.logger.info(message) (line 206), then break; without the attribute
   the AttributeError is caught by the except clause *)
LoadConfigurationLogInfo ==
    /\ cpc.at = "log_info"
    /\ IF logger
       THEN /\ cpc' = [at |-> "setup_logging", path |-> 0]
            /\ Step("main", <<"config_loaded">>, {}, {})
       ELSE /\ cpc' = [cpc EXCEPT !.at = "log_error"]
            /\ Step("main", <<>>, {}, {})
    /\ UNCHANGED <<outside_init, logger>>

(* line 170: self._log_error(...), whose first statement is
   self.logger.error(message) (line 214); without the attribute the
   AttributeError is raised inside the except clause and leaves
   _load_configuration and __init__ *)
LoadConfigurationLogError ==
    /\ cpc.at = "log_error"
    /\ IF logger
       THEN /\ cpc' = [at |-> "exists", path |-> cpc.path + 1]
            /\ Step("main", <<"config_load_failed">>, {}, {})
       ELSE /\ cpc' = [cpc EXCEPT !.at = "raised"]
            /\ Step("main", <<>>, {}, {})
    /\ UNCHANGED <<outside_init, logger>>

(* how _setup_logging ends: by its try block, or by its except clause *)
LoggingOutcomes == {"ok", "fallback"}

(* lines 174-202: _setup_logging assigns self.logger on both ways *)
SetupLogging(outcome) ==
    /\ cpc.at = "setup_logging"
    /\ logger' = TRUE
    /\ cpc' = [cpc EXCEPT !.at = "paths"]
    /\ Step("main", IF outcome = "ok" THEN <<"logging_initialized">>
                    ELSE <<"logging_setup_failed">>, {}, {})
    /\ UNCHANGED outside_init

(* lines 93-116: the paths *)
InitPaths ==
    /\ cpc.at = "paths"
    /\ cpc' = AfterInit
    /\ Step("main", <<>>, {}, {})
    /\ UNCHANGED <<outside_init, logger>>

(* __init__ after line 84, about to load the configuration, for every
   content of the three configuration paths *)
InitConstructor ==
    /\ auto_restart = TRUE
    /\ enable_monitoring = TRUE
    /\ max_restarts = 5
    /\ restart_delay = 30
    /\ exists = {Unobserved}
    /\ api_key = Unobserved
    /\ McpIdle
    /\ ServiceState
    /\ config_files \in [DOMAIN ConfigPaths -> FileKinds]
    /\ cpc = [at |-> "exists", path |-> 1]
    /\ logger = FALSE

NextConstructor ==
    \/ LoadConfigurationExists
    \/ LoadConfigurationRead
    \/ LoadConfigurationLogInfo
    \/ LoadConfigurationLogError
    \/ \E outcome \in LoggingOutcomes : SetupLogging(outcome)
    \/ InitPaths

SpecConstructor == InitConstructor /\ [][NextConstructor]_vars

----------------------------------------------------------------------------
(* The MCP servers: src/src/ghidra_gpt5_mcp.py ("gpt5") and
   src/src/mcp_ghidra_server_windows.py ("windows").  The state follows one
   call of one of their functions from its entry to its return or raise. *)

Servers == {"gpt5", "windows"}

MAX_RETRIES == 3
RETRY_DELAY == 2

(* handle_list_tools: the names of the Tool objects, in the order of the
   returned list *)
ListTools(srv) ==
    IF srv = "gpt5"
    THEN <<"ghidra_binary_analysis", "ghidra_function_analysis",
           "ghidra_exploit_development", "ghidra_malware_analysis",
           "ghidra_firmware_analysis", "ghidra_code_pattern_search",
           "gpt5_reverse_engineering_query">>
    ELSE <<"ghidra_binary_analysis", "windows_malware_analysis",
           "windows_pe_analysis", "system_integration_check">>

(* the final else branch of handle_call_tool *)
NoHandler == "no handler"

(* the chain without its branch for ghidra_code_pattern_search *)
CallToolHandlerForgets(srv, name) ==
    IF srv = "gpt5"
    THEN IF name = "ghidra_binary_analysis" THEN "handle_binary_analysis"
         ELSE IF name = "ghidra_function_analysis"
              THEN "handle_function_analysis"
         ELSE IF name = "ghidra_exploit_development"
              THEN "handle_exploit_development"
         ELSE IF name = "ghidra_malware_analysis"
              THEN "handle_malware_analysis"
         ELSE IF name = "ghidra_firmware_analysis"
              THEN "handle_firmware_analysis"
         ELSE IF name = "gpt5_reverse_engineering_query"
              THEN "handle_gpt5_query"
         ELSE NoHandler
    ELSE IF name = "ghidra_binary_analysis" THEN "handle_binary_analysis"
         ELSE IF name = "windows_malware_analysis"
              THEN "handle_malware_analysis"
         ELSE IF name = "windows_pe_analysis" THEN "handle_pe_analysis"
         ELSE IF name = "system_integration_check"
              THEN "handle_system_check"
         ELSE NoHandler

(* handle_call_tool, the if/elif chain on name: the handler function that
   is awaited, NoHandler in the else branch *)
CallToolHandler(srv, name) ==
    IF srv = "gpt5"
    THEN IF name = "ghidra_binary_analysis" THEN "handle_binary_analysis"
         ELSE IF name = "ghidra_function_analysis"
              THEN "handle_function_analysis"
         ELSE IF name = "ghidra_exploit_development"
              THEN "handle_exploit_development"
         ELSE IF name = "ghidra_malware_analysis"
              THEN "handle_malware_analysis"
         ELSE IF name = "ghidra_firmware_analysis"
              THEN "handle_firmware_analysis"
         ELSE IF name = "ghidra_code_pattern_search"
              THEN "handle_pattern_search"
         ELSE IF name = "gpt5_reverse_engineering_query"
              THEN "handle_gpt5_query"
         ELSE NoHandler
    ELSE IF name = "ghidra_binary_analysis" THEN "handle_binary_analysis"
         ELSE IF name = "windows_malware_analysis"
              THEN "handle_malware_analysis"
         ELSE IF name = "windows_pe_analysis" THEN "handle_pe_analysis"
         ELSE IF name = "system_integration_check"
              THEN "handle_system_check"
         ELSE NoHandler

(* the tool names a client may send: every name either server lists, a
   name no server lists, and the empty name *)
ToolNames ==
    Range(ListTools("gpt5")) \cup Range(ListTools("windows"))
        \cup {"ghidra_unlisted_tool", ""}

(* the inputSchema of each Tool of handle_list_tools: its properties *)
ToolProperties(srv, name) ==
    IF srv = "gpt5"
    THEN CASE name = "ghidra_binary_analysis" ->
                  {"binary_path", "analysis_depth", "focus_areas"}
           [] name = "ghidra_function_analysis" ->
                  {"binary_path", "function_address", "analysis_type"}
           [] name = "ghidra_exploit_development" ->
                  {"binary_path", "target_platform", "exploit_type",
                   "generate_poc"}
           [] name = "ghidra_malware_analysis" ->
                  {"malware_path", "analysis_scope", "sandbox_mode"}
           [] name = "ghidra_firmware_analysis" ->
                  {"firmware_path", "architecture", "device_type"}
           [] name = "ghidra_code_pattern_search" ->
                  {"binary_path", "search_pattern", "pattern_type"}
           [] name = "gpt5_reverse_engineering_query" ->
                  {"query", "context", "specialization"}
           [] OTHER -> {}
    ELSE CASE name = "ghidra_binary_analysis" ->
                  {"binary_path", "analysis_depth", "focus_areas"}
           [] name = "windows_malware_analysis" ->
                  {"malware_path", "analysis_scope", "windows_specific"}
           [] name = "windows_pe_analysis" ->
                  {"pe_path", "analysis_components"}
           [] name = "system_integration_check" -> {"check_type"}
           [] OTHER -> {}

(* the inputSchema of each Tool: its 'required' list *)
ToolRequired(srv, name) ==
    IF srv = "gpt5"
    THEN CASE name = "ghidra_binary_analysis" -> {"binary_path"}
           [] name = "ghidra_function_analysis" ->
                  {"binary_path", "function_address"}
           [] name = "ghidra_exploit_development" ->
                  {"binary_path", "target_platform"}
           [] name = "ghidra_malware_analysis" -> {"malware_path"}
           [] name = "ghidra_firmware_analysis" -> {"firmware_path"}
           [] name = "ghidra_code_pattern_search" ->
                  {"binary_path", "search_pattern"}
           [] name = "gpt5_reverse_engineering_query" -> {"query"}
           [] OTHER -> {}
    ELSE CASE name = "ghidra_binary_analysis" -> {"binary_path"}
           [] name = "windows_malware_analysis" -> {"malware_path"}
           [] name = "windows_pe_analysis" -> {"pe_path"}
           [] name = "system_integration_check" -> {}
           [] OTHER -> {}

(* the arguments each handler cannot do without.  The handlers of the
   GPT-5 server subscript them, arguments["x"], which raises KeyError for
   an absent key; those of the Windows server read every argument with
   arguments.get, and two of them hand the value to Path(), which raises
   TypeError for None. *)
HandlerReads(srv, name) ==
    IF srv = "gpt5"
    THEN CASE name = "ghidra_binary_analysis" -> {"binary_path"}
           [] name = "ghidra_function_analysis" ->
                  {"binary_path", "function_address"}
           [] name = "ghidra_exploit_development" ->
                  {"binary_path", "target_platform"}
           [] name = "ghidra_malware_analysis" -> {"malware_path"}
           [] name = "ghidra_firmware_analysis" -> {"firmware_path"}
           [] name = "ghidra_code_pattern_search" ->
                  {"binary_path", "search_pattern", "pattern_type"}
           [] name = "gpt5_reverse_engineering_query" -> {"query"}
           [] OTHER -> {}
    ELSE CASE name = "windows_malware_analysis" -> {"malware_path"}
           [] name = "windows_pe_analysis" -> {"pe_path"}
           [] OTHER -> {}

(* how the body of a handler ends once it has its arguments: it returns its
   TextContent list, or an exception leaves it (a missing file, a Ghidra
   failure, the retries of the API call exhausted) *)
HandlerOutcomes == {"returns", "raises"}

(* how the awaited handler ends: without one of the arguments it cannot do
   without it raises before anything else *)
HandlerExit(srv, name, args, outcome) ==
    IF ~(HandlerReads(srv, name) \subseteq args) THEN "missing argument"
    ELSE outcome

(* the text of the TextContent that handle_call_tool makes of the
   exception e raised in a handler *)
CallToolError(srv, name, e) ==
    IF srv = "gpt5" THEN <<"Error: ", e>>
    ELSE <<"Error executing tool ", name, ": ", e>>

(* the except clause left out: the exception of the handler leaves
   handle_call_tool *)
HandleCallToolRaises(outcome) ==
    /\ fn = "handle_call_tool"
    /\ mpc = "call"
    /\ handler' =
         IF CallToolHandler(server, tool) = NoHandler THEN NoCall
         ELSE [name |-> CallToolHandler(server, tool),
               exit |-> HandlerExit(server, tool, arguments, outcome)]
    /\ mpc' = IF handler'.exit \in {"none", "returns"} THEN "returned"
              ELSE "raised"
    /\ result' =
         IF handler'.exit = "none"
         THEN [kind |-> "return", value |-> <<<<"Unknown tool: ", tool>>>>]
         ELSE IF handler'.exit = "returns"
         THEN [kind |-> "return",
               value |-> <<<<"output of ", handler'.name>>>>]
         ELSE [kind |-> "raise", value |-> <<handler'.exit>>]
    /\ UNCHANGED <<supervisor, request, files, attempt, history>>

(* handle_call_tool(name, arguments): the handler of the name is awaited
   with the arguments and its list returned; the else branch returns the
   'Unknown tool' text; an exception of the handler is caught and returned
   as one TextContent *)
HandleCallTool(outcome) ==
    /\ fn = "handle_call_tool"
    /\ mpc = "call"
    /\ mpc' = "returned"
    /\ handler' =
         IF CallToolHandler(server, tool) = NoHandler THEN NoCall
         ELSE [name |-> CallToolHandler(server, tool),
               exit |-> HandlerExit(server, tool, arguments, outcome)]
    /\ result' =
         [kind |-> "return",
          value |->
              IF handler'.exit = "none"
              THEN <<<<"Unknown tool: ", tool>>>>
              ELSE IF handler'.exit = "returns"
                   THEN <<<<"output of ", handler'.name>>>>
              ELSE <<CallToolError(server, tool, handler'.exit)>>]
    /\ UNCHANGED <<supervisor, request, files, attempt, history>>

----------------------------------------------------------------------------
(* Strings of the environment, as sequences of characters *)

(* os.environ.get(var) of a variable that is not set *)
Unset == <<"None">>

Whitespace == {" ", "\t"}

RECURSIVE LStrip(_)
LStrip(str) ==
    IF str # <<>> /\ Head(str) \in Whitespace THEN LStrip(Tail(str))
    ELSE str

RECURSIVE RStrip(_)
RStrip(str) ==
    IF str # <<>> /\ str[Len(str)] \in Whitespace
    THEN RStrip(SubSeq(str, 1, Len(str) - 1))
    ELSE str

(* str.strip() *)
Strip(str) == RStrip(LStrip(str))

(* str.startswith(prefix) *)
StartsWith(str, prefix) ==
    /\ Len(str) >= Len(prefix)
    /\ SubSeq(str, 1, Len(prefix)) = prefix

(* the truth value of os.environ.get(var): None and '' are false *)
Truthy(value) == value # Unset /\ value # <<>>

SkPrefix == <<"s", "k", "-">>

(* get_openai_api_key, line 257 *)
KeyVars == <<"OPENAI_API_KEY", "CHATGPT_COOKIE">>

KeyNotFound ==
    [kind |-> "raise", value |-> <<"RuntimeError: OpenAI API key not found">>]

(* get_openai_api_key, lines 259-266, the for loop from variable i on *)
RECURSIVE GetOpenaiApiKey(_, _)
GetOpenaiApiKey(env, i) ==
    IF i > Len(KeyVars) THEN KeyNotFound
    ELSE IF /\ Truthy(env[KeyVars[i]])
            /\ Strip(env[KeyVars[i]]) # <<>>
            /\ StartsWith(env[KeyVars[i]], SkPrefix)
         THEN [kind |-> "return", value |-> Strip(env[KeyVars[i]])]
    ELSE GetOpenaiApiKey(env, i + 1)

(* the values a key variable may hold, c being the text of the key: not
   set, empty, blank, a key, a key after a blank, a key before a blank, a
   text that is no key *)
KeyTexts(c) ==
    {Unset, <<>>, <<" ">>, SkPrefix \o <<c>>, <<" ">> \o SkPrefix \o <<c>>,
     SkPrefix \o <<c, " ">>, <<c>>}

(* a call of get_openai_api_key *)
GetOpenaiApiKeyCall ==
    /\ fn = "get_openai_api_key"
    /\ mpc = "call"
    /\ result' = GetOpenaiApiKey(environ, 1)
    /\ mpc' = IF result'.kind = "return" THEN "returned" ELSE "raised"
    /\ UNCHANGED <<supervisor, request, handler, files, attempt, history>>

----------------------------------------------------------------------------
(* The retry loops *)

(* what an HTTP request comes to: 200 with a first choice that has content,
   200 with an empty choices list, 200 with a body that lacks the expected
   keys, 429, another status, a timeout, a connection error *)
Outcomes ==
    {"200_content", "200_empty", "200_malformed", "429", "http_error",
     "timeout", "connection_error"}

(* result['choices'][0]['message']['content'] of the response to the
   request of attempt k *)
Content(k) == <<"content of response ", <<"1", "2", "3">>[k + 1]>>

(* str(e) of the exception that a failed attempt ends with *)
ErrorText(outcome) ==
    IF outcome = "200_empty" THEN "Empty response from GPT-5"
    ELSE IF outcome = "200_malformed" THEN "KeyError"
    ELSE IF outcome = "http_error" THEN "HTTP 500"
    ELSE "connection error"

(* the rate limit wait growing by RETRY_DELAY per attempt *)
QueryWaitLinear(outcome, k) ==
    IF outcome = "200_content" THEN 0
    ELSE IF outcome = "429" THEN RETRY_DELAY * (k + 1)
    ELSE IF k = MAX_RETRIES - 1 THEN 0
    ELSE RETRY_DELAY

(* query_gpt5_with_retry, lines 309-327: the seconds slept after the
   request of attempt k: a 429 sleeps RETRY_DELAY * 2 ** attempt on every
   attempt, another failure sleeps RETRY_DELAY unless the attempt is the
   last one *)
QueryWait(outcome, k) ==
    IF outcome = "200_content" THEN 0
    ELSE IF outcome = "429" THEN RETRY_DELAY * (2 ^ k)
    ELSE IF k = MAX_RETRIES - 1 THEN 0
    ELSE RETRY_DELAY

(* lines 271-293: the key is looked up before the loop *)
QueryGpt5Begin ==
    /\ fn = "query_gpt5_with_retry"
    /\ mpc = "call"
    /\ IF GetOpenaiApiKey(environ, 1).kind = "return"
       THEN /\ mpc' = "attempt"
            /\ UNCHANGED result
       ELSE /\ mpc' = "raised"
            /\ result' = GetOpenaiApiKey(environ, 1)
    /\ UNCHANGED <<supervisor, request, handler, files, attempt, history>>

(* the loop body in which a 200 with content on an attempt that is not
   the last one is followed by the sleep and the next attempt *)
QueryGpt5AttemptGoesOn(outcome) ==
    /\ fn = "query_gpt5_with_retry"
    /\ mpc = "attempt"
    /\ history' = Append(history, [outcome |-> outcome,
                                   wait |-> QueryWait(outcome, attempt)])
    /\ IF outcome = "200_content" /\ attempt = MAX_RETRIES - 1
       THEN /\ mpc' = "returned"
            /\ result' = [kind |-> "return", value |-> Content(attempt)]
       ELSE IF outcome \in {"429", "200_content"}
       THEN /\ mpc' = "sleep"
            /\ UNCHANGED result
       ELSE IF attempt = MAX_RETRIES - 1
       THEN /\ mpc' = "raised"
            /\ result' =
                 [kind |-> "raise",
                  value |->
                      IF outcome = "timeout"
                      THEN <<"Request timed out after all retries">>
                      ELSE <<"All retry attempts failed. Last error: ",
                             ErrorText(outcome)>>]
       ELSE /\ mpc' = "sleep"
            /\ UNCHANGED result
    /\ UNCHANGED <<supervisor, request, handler, files, attempt>>

(* lines 295-327, one pass of the loop body: the request is sent; a 200
   with content returns it (lines 300-305); a 429 sleeps and continues
   (lines 308-313); an empty 200 and another status raise (lines 307, 316),
   which like a malformed body and a connection error is handled at lines
   323-327, a timeout at lines 318-322: on the last attempt the handler
   raises, otherwise it sleeps *)
QueryGpt5Attempt(outcome) ==
    /\ fn = "query_gpt5_with_retry"
    /\ mpc = "attempt"
    /\ history' = Append(history, [outcome |-> outcome,
                                   wait |-> QueryWait(outcome, attempt)])
    /\ IF outcome = "200_content"
       THEN /\ mpc' = "returned"
            /\ result' = [kind |-> "return", value |-> Content(attempt)]
       ELSE IF outcome = "429"
       THEN /\ mpc' = "sleep"
            /\ UNCHANGED result
       ELSE IF attempt = MAX_RETRIES - 1
       THEN /\ mpc' = "raised"
            /\ result' =
                 [kind |-> "raise",
                  value |->
                      IF outcome = "timeout"
                      THEN <<"Request timed out after all retries">>
                      ELSE <<"All retry attempts failed. Last error: ",
                             ErrorText(outcome)>>]
       ELSE /\ mpc' = "sleep"
            /\ UNCHANGED result
    /\ UNCHANGED <<supervisor, request, handler, files, attempt>>

(* the sleep ends and the same attempt is made again *)
QueryGpt5WakeStays ==
    /\ fn = "query_gpt5_with_retry"
    /\ mpc = "sleep"
    /\ mpc' = "attempt"
    /\ UNCHANGED <<supervisor, request, handler, files, attempt, history,
                   result>>

(* the sleep ends (lines 312, 322, 327) and the for statement of line 295
   takes the next attempt; when there is none the statement after the
   loop raises (line 329) *)
QueryGpt5Wake ==
    /\ fn = "query_gpt5_with_retry"
    /\ mpc = "sleep"
    /\ attempt' = attempt + 1
    /\ IF attempt + 1 < MAX_RETRIES
       THEN /\ mpc' = "attempt"
            /\ UNCHANGED result
       ELSE /\ mpc' = "raised"
            /\ result' = [kind |-> "raise",
                          value |-> <<"Unexpected error in retry logic">>]
    /\ UNCHANGED <<supervisor, request, handler, files, history>>

(* call_openai_api, lines 263-266: without a key it returns None *)
CallOpenaiApiBegin ==
    /\ fn = "call_openai_api"
    /\ mpc = "call"
    /\ IF Truthy(environ["OPENAI_API_KEY"])
       THEN /\ mpc' = "attempt"
            /\ UNCHANGED result
       ELSE /\ mpc' = "returned"
            /\ result' = [kind |-> "return", value |-> None]
    /\ UNCHANGED <<supervisor, request, handler, files, attempt, history>>

(* the same wait of RETRY_DELAY after every attempt but the last *)
CallWaitConstant(outcome, k) ==
    IF outcome = "200_content" THEN 0
    ELSE IF k < MAX_RETRIES - 1 THEN RETRY_DELAY
    ELSE 0

(* call_openai_api, line 298: the seconds slept after attempt k *)
CallWait(outcome, k) ==
    IF outcome = "200_content" THEN 0
    ELSE IF k < MAX_RETRIES - 1 THEN RETRY_DELAY * (k + 1)
    ELSE 0

(* call_openai_api, lines 281-300, one pass of the loop body: a 200 whose
   body has the content returns it; another status is logged; a timeout
   and any other exception, a body without the expected keys among them,
   are caught and logged; then all but the last attempt sleep, and after
   the last one the function returns None *)
CallOpenaiApiAttempt(outcome) ==
    /\ fn = "call_openai_api"
    /\ mpc = "attempt"
    /\ history' = Append(history, [outcome |-> outcome,
                                   wait |-> CallWait(outcome, attempt)])
    /\ IF outcome = "200_content"
       THEN /\ mpc' = "returned"
            /\ result' = [kind |-> "return", value |-> Content(attempt)]
       ELSE IF attempt < MAX_RETRIES - 1
       THEN /\ mpc' = "sleep"
            /\ UNCHANGED result
       ELSE /\ mpc' = "returned"
            /\ result' = [kind |-> "return", value |-> None]
    /\ UNCHANGED <<supervisor, request, handler, files, attempt>>

(* call_openai_api, lines 281 and 298: the sleep ends and the next attempt
   starts *)
CallOpenaiApiWake ==
    /\ fn = "call_openai_api"
    /\ mpc = "sleep"
    /\ attempt' = attempt + 1
    /\ mpc' = "attempt"
    /\ UNCHANGED <<supervisor, request, handler, files, history, result>>

(* one call into an MCP server: the function, the server module it is
   called in, the tool name of a tool call and the environment are drawn;
   the service is left as constructed *)
----------------------------------------------------------------------------
(* handle_function_analysis, ghidra_gpt5_mcp.py lines 425-509, called with
   the arguments of a ghidra_function_analysis request *)

(* f.name of the NamedTemporaryFile of lines 465-467 *)
TempScript == "tmp_script.py"

(* lines 427-429 and 465-467: the two subscripts raise KeyError for an
   absent argument; then the script is written to a temporary file that
   stays on disk when it is closed (delete=False) *)
FunctionAnalysisBegin ==
    /\ fn = "handle_function_analysis"
    /\ mpc = "call"
    /\ IF HandlerReads(server, "ghidra_function_analysis") \subseteq arguments
       THEN /\ script_path' = TempScript
            /\ tempfiles' = tempfiles \cup {TempScript}
            /\ mpc' = "ghidra"
            /\ UNCHANGED result
       ELSE /\ mpc' = "raised"
            /\ result' = [kind |-> "raise", value |-> <<"missing argument">>]
            /\ UNCHANGED files
    /\ UNCHANGED <<supervisor, request, handler, attempt, history>>

(* how run_ghidra_headless (lines 331-378) ends: it returns the output of
   Ghidra; it returns an error text (a non-zero return code, the timeout,
   an exception of subprocess.run); it raises because the binary does not
   exist (lines 334-335) *)
GhidraOutcomes == {"output", "error_text", "missing_binary"}

(* lines 504-509: os.unlink(script_path) in the finally clause *)
Unlink(path) == tempfiles \ {path}

(* lines 469-471 and 504-509: run_ghidra_headless(binary_path,
   script_path) inside the try; when it raises, the finally clause runs *)
FunctionAnalysisGhidra(outcome) ==
    /\ fn = "handle_function_analysis"
    /\ mpc = "ghidra"
    /\ IF outcome = "missing_binary"
       THEN /\ mpc' = "raised"
            /\ result' = [kind |-> "raise",
                          value |-> <<"Binary file not found">>]
            /\ tempfiles' = Unlink(script_path)
       ELSE /\ mpc' = "query"
            /\ UNCHANGED <<result, tempfiles>>
    /\ UNCHANGED <<supervisor, request, handler, script_path, attempt,
                   history>>

(* how the awaited query_gpt5_with_retry ends *)
QueryOutcomes == {"content", "raises"}

(* the cleanup that runs only after a response: the unlink at the end of
   the try block, with no finally clause *)
FunctionAnalysisQueryKeeps(outcome) ==
    /\ fn = "handle_function_analysis"
    /\ mpc = "query"
    /\ IF outcome = "content"
       THEN /\ mpc' = "returned"
            /\ result' = [kind |-> "return", value |-> <<<<"response">>>>]
            /\ tempfiles' = Unlink(script_path)
       ELSE /\ mpc' = "raised"
            /\ result' = [kind |-> "raise", value |-> <<"query failed">>]
            /\ tempfiles' = tempfiles
    /\ UNCHANGED <<supervisor, request, handler, script_path, attempt,
                   history>>

(* lines 501-509: the response of query_gpt5_with_retry is returned as one
   TextContent, or its exception leaves the handler; the finally clause
   runs on both ways *)
FunctionAnalysisQuery(outcome) ==
    /\ fn = "handle_function_analysis"
    /\ mpc = "query"
    /\ IF outcome = "content"
       THEN /\ mpc' = "returned"
            /\ result' = [kind |-> "return", value |-> <<<<"response">>>>]
       ELSE /\ mpc' = "raised"
            /\ result' = [kind |-> "raise", value |-> <<"query failed">>]
    /\ tempfiles' = Unlink(script_path)
    /\ UNCHANGED <<supervisor, request, handler, script_path, attempt,
                   history>>

Functions ==
    {"handle_call_tool", "get_openai_api_key", "query_gpt5_with_retry",
     "call_openai_api", "handle_function_analysis"}

InitMcp ==
    /\ auto_restart = TRUE
    /\ enable_monitoring = TRUE
    /\ max_restarts = 5
    /\ restart_delay = 30
    /\ exists = {Unobserved}
    /\ api_key = Unobserved
    /\ Constructed
    /\ fn \in Functions
    /\ server \in IF fn = "handle_call_tool" THEN Servers
                  ELSE IF fn = "call_openai_api" THEN {"windows"}
                  ELSE {"gpt5"}
    /\ tool \in IF fn = "handle_call_tool" THEN ToolNames ELSE {""}
    /\ arguments \in IF fn = "handle_call_tool"
                     THEN SUBSET ToolProperties(server, tool)
                     ELSE IF fn = "handle_function_analysis"
                     THEN SUBSET ToolProperties(server,
                                                "ghidra_function_analysis")
                     ELSE {{}}
    /\ handler = NoCall
    /\ tempfiles = {}
    /\ script_path = NoScript
    /\ \E a \in KeyTexts("a"), b \in KeyTexts("b") :
           environ = [v \in Range(KeyVars) |->
                          IF v = "OPENAI_API_KEY" THEN a ELSE b]
    /\ mpc = "call"
    /\ attempt = 0
    /\ history = <<>>
    /\ result = NoResult

NextMcp ==
    \/ \E outcome \in HandlerOutcomes : HandleCallTool(outcome)
    \/ GetOpenaiApiKeyCall
    \/ QueryGpt5Begin
    \/ \E outcome \in Outcomes : QueryGpt5Attempt(outcome)
    \/ QueryGpt5Wake
    \/ CallOpenaiApiBegin
    \/ \E outcome \in Outcomes : CallOpenaiApiAttempt(outcome)
    \/ CallOpenaiApiWake
    \/ FunctionAnalysisBegin
    \/ \E outcome \in GhidraOutcomes : FunctionAnalysisGhidra(outcome)
    \/ \E outcome \in QueryOutcomes : FunctionAnalysisQuery(outcome)

(* a called function keeps running: a request ends with one of its
   outcomes and a sleep ends *)
SpecMcp == InitMcp /\ [][NextMcp]_vars /\ WF_vars(NextMcp)

----------------------------------------------------------------------------
(* Properties *)

LastDecision == decisions[Len(decisions)]

Launches == {c \in sent : c.op = "launch"}

(* C1: once SvcStop has signaled stop (is_alive is False), the monitor
   thread's restart handling launches no worker: whenever the last step is
   a launch made by the monitor thread, the service is still alive. *)
NoLaunchAfterStop ==
    (actor = "mon" /\ Launches # {}) => is_alive

(* the delay of the n-th restart in a row, by doubling *)
RECURSIVE Doubled(_, _)
Doubled(base, n) == IF n <= 1 THEN base ELSE 2 * Doubled(base, n - 1)

ExpectedDelay(base, n) ==
    IF Doubled(base, n) > 300 THEN 300 ELSE Doubled(base, n)

(* C2: every restart decision with count n in 1..max_restarts allows the
   restart, and the delay that is then waited is min(restart_delay *
   2^(n-1), 300) seconds; every decision with n > max_restarts denies: no
   delay is waited and no worker is launched afterwards. *)
RestartPolicyDelay ==
    /\ \A i \in 1..Len(decisions) :
          LET d == decisions[i] IN
          /\ d.count >= 1
          /\ d.allow <=> d.count <= max_restarts
          /\ d.allow => d.delay = ExpectedDelay(restart_delay, d.count)
    /\ Len(decisions) > 0 =>
          LET d == LastDecision IN
          IF d.allow
          THEN IF pc["mon"] = "restart_delay"
               THEN /\ now = d.at
                    /\ pending_delay = ExpectedDelay(restart_delay, d.count)
               ELSE now >= d.at + ExpectedDelay(restart_delay, d.count)
          ELSE /\ pc["mon"] \notin {"handle_restart", "restart_delay"}
               /\ now \in {d.at, d.at + ErrorSleep}
               /\ launched = d.procs

(* C2 witness: a capped delay has been waited and a later decision denied *)
RestartPolicyDelayWitness ==
    /\ Len(decisions) >= 2
    /\ ~LastDecision.allow
    /\ pc["mon"] = "done"
    /\ \E i \in 1..Len(decisions) :
          /\ decisions[i].allow
          /\ decisions[i].delay = 300
          /\ restart_delay * (2 ^ (decisions[i].count - 1)) > 300

(* the scenario of C3: the first crash of a fresh service and crashes that
   follow restarts that succeeded (last_restart is the time of the decision
   before), all within one restart window *)
RapidCrashes ==
    /\ restart_delay = 30
    /\ max_restarts = 5
    /\ \A i \in 1..Len(decisions) :
          /\ decisions[i].last = IF i = 1 THEN NoTime ELSE decisions[i - 1].at
          /\ decisions[i].at - decisions[1].at < restart_window

BackoffDelays == <<30, 60, 120, 240, 300>>

(* C3: with restart_delay = 30 and max_restarts = 5, successive crashes
   within the restart window, each after a relaunch that succeeded, get the
   delays 30, 60, 120, 240, 300 in this order; the sixth is denied and
   stops the service. *)
BackoffSequence ==
    RapidCrashes =>
        /\ Len(decisions) <= 6
        /\ \A i \in 1..Len(decisions) :
              IF i <= 5
              THEN decisions[i].allow /\ decisions[i].delay = BackoffDelays[i]
              ELSE ~decisions[i].allow
        /\ Len(decisions) = 6 =>
              /\ pc["mon"] \in StopPcs \cup {"error_sleep", "monitor_loop", "done"}
              /\ pc["mon"] # "SvcStop" => ~is_alive
              /\ launched = 6

(* C3 witness: six crashes in a row were handled and the service stopped *)
BackoffSequenceWitness ==
    /\ RapidCrashes
    /\ Len(decisions) = 6
    /\ ~is_alive
    /\ pc["mon"] = "done"

(* the start of the restart window that is current at decision i > 1: the
   time of the latest earlier decision that set restart_count to 1 *)
WindowStart(i) ==
    LET resets == {j \in 1..(i - 1) : decisions[j].count = 1}
        latest == CHOOSE j \in resets : \A k \in resets : k <= j
    IN  decisions[latest].at

(* C4: at a restart decision, if the time elapsed since the start of the
   current restart window exceeds restart_window, restart_count becomes 1
   (and the window starts anew); otherwise restart_count is incremented by
   1; for an elapsed time of any length. *)
RestartWindowRule ==
    \A i \in 1..Len(decisions) :
        LET d == decisions[i] IN
        IF i = 1 THEN d.count = 1
        ELSE IF d.at - WindowStart(i) > restart_window
             THEN d.count = 1
             ELSE d.count = d.before + 1

(* C5: a worker that keeps failing within the restart window is not
   restarted forever: among restart decisions that all lie within one
   restart window, at most max_restarts allow a restart. *)
RestartStormBounded ==
    \A i, j \in 1..Len(decisions) :
        (i <= j /\ decisions[j].at - decisions[i].at < restart_window)
        => Cardinality({k \in i..j : decisions[k].allow}) <= max_restarts

(* the control handler's SvcStop has returned *)
StopReturned == pc["scm"] = "idle" /\ stops >= 1

(* stop was signaled while the monitor thread waits out a restart delay
   that it began while the service was alive *)
StopDuringRestartDelay ==
    /\ pc["mon"] = "restart_delay"
    /\ LastDecision.alive
    /\ ~is_alive

(* C6: a stop requested while the restart delay is waited out cancels the
   wait: SvcStop does not return (Stopped is not reached) while the monitor
   thread is still in that delay. *)
StopCancelsRestartDelay ==
    StopDuringRestartDelay => ~StopReturned

(* C7: when SvcStop returns, the worker is no longer running and the
   monitor thread has finished; the stop signal comes first among the steps
   of SvcStop. *)
SvcStopPostcondition ==
    /\ (actor = "scm" /\ StopReturned) =>
           /\ server_process \notin running
           /\ ~MonitorAlive
    /\ \A t \in {"scm", "mon"} :
           pc[t] \in StopPcs \ {"SvcStop"} => ~is_alive

Kills == {c \in sent : c.op = "kill"}

(* the step in which thread t leaves the wait of SvcStop *)
WaitEnds(t) == pc[t] = "stop_wait" /\ pc'[t] # "stop_wait"

(* C8: when the wait of SvcStop ends with the worker still running (the
   timeout), kill() is issued on it, exactly one entry is logged, of
   warning severity, and SvcStop goes on to join the monitor (the caller is
   the control handler, whose join cannot raise); when the worker has
   exited, no kill() is issued. *)
ShutdownTimeoutEscalates ==
    [][\A t \in {"scm", "mon"} :
          WaitEnds(t) =>
             IF server_process \in running
             THEN /\ Kills' = {[op |-> "kill", pid |-> server_process,
                                live |-> TRUE]}
                  /\ server_process \notin running'
                  /\ Len(logged') = 1
                  /\ Severity(logged'[1]) = "warning"
                  /\ t = "scm"
                  /\ pc'[t] = "stop_join"
             ELSE /\ Kills' = {}
                  /\ running' = running
                  /\ \A i \in 1..Len(logged') : Severity(logged'[i]) = "info"]_vars

(* C8 witness: the control handler's SvcStop has just timed out on a
   running worker and killed it *)
ShutdownTimeoutWitness ==
    /\ actor = "scm"
    /\ pc["scm"] = "stop_join"
    /\ logged = <<"forced_termination">>
    /\ Kills # {}
    /\ server_process \notin running

(* the supervisor is stopped: stop was signaled, no worker runs, and the
   main and monitor threads have ended *)
Stopped ==
    /\ ~is_alive
    /\ running = {}
    /\ ~MonitorAlive
    /\ pc["main"] \in {"done", "raised"}

(* C9: SvcStop on a supervisor that is already stopped is a no-op: none of
   its steps changes the supervisor's state, calls terminate() or kill(),
   or writes a log entry. *)
StopOnStoppedIsNoOp ==
    [][(Stopped /\ stops >= 1 /\ pc["scm"] \in StopPcs
        /\ pc'["scm"] # pc["scm"])
       => /\ logged' = <<>>
          /\ sent' = {}
          /\ UNCHANGED <<is_alive, hWaitStop, server_process, monitor_thread,
                         restart_count, last_restart>>]_vars

(* C10, as stated: the monitor thread never writes the shared supervisor
   state. *)
MonitorNeverWrites ==
    actor = "mon" => wrote = {}

(* C10, amended: restart_count and last_restart are assigned by the monitor
   thread only; server_process is assigned by the main thread only while
   the monitor thread does not exist yet, and by the monitor thread
   afterwards; is_alive is only ever set to False, by a thread running
   SvcStop (the control handler or the monitor thread). *)
SharedStateWriters ==
    /\ [](/\ wrote \cap {"restart_count", "last_restart"} # {}
             => actor = "mon"
          /\ "server_process" \in wrote
             => \/ actor = "mon"
                \/ actor = "main" /\ pc["mon"] = "unborn"
          /\ "is_alive" \in wrote
             => actor \in {"scm", "mon"} /\ ~is_alive)
    /\ [][/\ (restart_count' # restart_count \/ last_restart' # last_restart)
             => actor' = "mon"
          /\ server_process' # server_process
             => \/ actor' = "mon"
                \/ actor' = "main" /\ pc["mon"] = "unborn"
          /\ is_alive' # is_alive
             => /\ actor' \in {"scm", "mon"}
                /\ pc[actor'] = "SvcStop"
                /\ ~is_alive']_vars

(* C10 witness: the monitor thread has just installed a new worker handle
   and set last_restart *)
SharedStateWritersWitness ==
    /\ actor = "mon"
    /\ wrote = {"server_process", "last_restart"}
    /\ last_restart # NoTime
    /\ restart_count >= 1

(* C11: when the restart policy denies (restart_count > max_restarts), the
   step logs the denial, as its only entry and at error severity, and goes
   on into SvcStop; the stop signal of SvcStop sets the stop event and
   clears is_alive, so that from then on the status is 'Stopped'; no worker
   is launched after the denial; the denial is only ever logged by the
   monitor thread's restart handling. *)
DenialStopsService ==
    /\ [](/\ (Len(decisions) > 0 /\ ~LastDecision.allow) =>
                /\ pc["mon"] \in StopPcs \cup {"error_sleep", "monitor_loop",
                                               "done"}
                /\ pc["mon"] # "SvcStop" =>
                       ~is_alive /\ GetServiceStatus = "Stopped"
                /\ launched = LastDecision.procs
          /\ "max_restarts_exceeded" \in {logged[i] : i \in 1..Len(logged)} =>
                /\ actor = "mon"
                /\ Len(decisions) > 0
                /\ ~LastDecision.allow)
    /\ [][/\ (pc["mon"] = "handle_restart" /\ pc'["mon"] # "handle_restart"
              /\ restart_count' > max_restarts)
             => /\ logged' = <<"max_restarts_exceeded">>
                /\ Severity(logged'[1]) = "error"
                /\ sent' = {}
                /\ pc'["mon"] = "SvcStop"
          /\ (pc["mon"] = "SvcStop" /\ pc'["mon"] # "SvcStop")
             => hWaitStop' /\ ~is_alive']_vars

(* C11 witness: the policy denied, the monitor thread alone stopped the
   service, and the main and monitor threads have ended *)
DenialStopsServiceWitness ==
    /\ Len(decisions) > 0
    /\ ~LastDecision.allow
    /\ stops = 0
    /\ pc["scm"] = "idle"
    /\ ~is_alive
    /\ pc["mon"] = "done"
    /\ pc["main"] = "done"

(* C12: when the initial launch has failed and SvcDoRun has ended by
   raising, the supervisor is Stopped: the status query reports 'Stopped'
   (is_alive is False), no worker handle is held and no monitor thread has
   been started. *)
InitialLaunchFailureStops ==
    pc["main"] = "raised" =>
        /\ GetServiceStatus = "Stopped"
        /\ ~is_alive
        /\ server_process = 0
        /\ ~monitor_thread

(* C13: with auto_restart disabled, the poll that finds the worker exited
   reports the exit and goes straight into SvcStop: the restart policy is
   never consulted, restart_count and last_restart keep their initial
   values, no restart delay is waited and no worker is launched after the
   first one. *)
AutoRestartDisabledStops ==
    /\ [](~auto_restart =>
             /\ decisions = <<>>
             /\ restart_count = 0
             /\ last_restart = NoTime
             /\ pending_delay = 0
             /\ launched <= 1
             /\ pc["mon"] \notin {"handle_restart", "restart_delay"})
    /\ [][(/\ ~auto_restart
           /\ pc["mon"] = "monitor_loop"
           /\ pc'["mon"] \notin {"monitor_loop", "error_sleep"}
           /\ is_alive
           /\ server_process # 0
           /\ server_process \notin running)
          => /\ pc'["mon"] = "SvcStop"
             /\ logged' = <<"process_terminated", "auto_restart_disabled">>
             /\ sent' = {}
             /\ now' = now
             /\ UNCHANGED <<restart_count, last_restart, server_process,
                            launched>>]_vars

(* C13 witness: with auto_restart disabled the worker exited and the
   monitor thread alone stopped the service *)
AutoRestartDisabledWitness ==
    /\ ~auto_restart
    /\ launched = 1
    /\ running = {}
    /\ stops = 0
    /\ pc["scm"] = "idle"
    /\ ~is_alive
    /\ pc["mon"] = "done"

(* the pids that the worker processes can get *)
Pids == 1..(5 + ExtraProcs)

(* the worker with pid p has exited while the service is running and the
   main loop is under way *)
WorkerExitPending(p) ==
    /\ auto_restart
    /\ is_alive
    /\ pc["main"] \in {"main_loop", "main_wait"}
    /\ server_process = p
    /\ p \notin running

(* the restart policy has been evaluated for the exit of the worker p *)
WorkerExitHandled(p) ==
    \E i \in 1..Len(decisions) : decisions[i].procs = p

(* C14: with auto_restart enabled, the exit of a worker while the service
   is running is eventually handled: the restart policy is evaluated for
   that exit (unless a stop of the service is requested first). *)
WorkerExitEventuallyHandled ==
    \A p \in Pids :
        WorkerExitPending(p) ~> (WorkerExitHandled(p) \/ ~is_alive)

(* C15: at every restart decision, restart_count becomes 1 when the time
   since last_restart exceeds restart_window (or there is no last restart)
   and is incremented by 1 otherwise, whether the elapsed time is below or
   above one day. *)
RestartCountResetRule ==
    \A i \in 1..Len(decisions) :
        LET d == decisions[i] IN
        IF d.last = NoTime \/ d.at - d.last > restart_window
        THEN d.count = 1
        ELSE d.count = d.before + 1

(* C16: the exit of one worker handle is handled at most once: no two
   restart decisions are taken for the same handle. *)
ExitHandledOnce ==
    \A i, j \in 1..Len(decisions) :
        i < j => decisions[i].procs # decisions[j].procs

(* C17: the sleeps of the monitor thread are cancelled by the stop signal:
   once SvcStop has returned, the monitor thread is no longer inside its
   health-check sleep or its error sleep. *)
MonitorSleepCancellable ==
    (StopReturned /\ ~is_alive) =>
        pc["mon"] \notin {"health_sleep", "error_sleep"}

HealthCheckMsgs == {"memory_exceeds", "high_cpu", "process_gone",
                    "process_info_error", "health_check_error"}

(* C18: an exception raised in the body of the monitor loop is caught and
   logged, as one entry, and leaves is_alive, the worker and the monitor
   thread as they are; the monitor thread then sleeps 30 s and goes back to
   its loop test.  A periodic health check, whatever it finds or raises,
   only logs and returns to the main loop: it changes neither is_alive nor
   the stop event nor the position of the monitor thread, and SvcDoRun
   raises only when the initial launch fails. *)
ExceptionsAreContained ==
    /\ [](pc["main"] = "raised" => (launched = 0 /\ checks = 0))
    /\ [][/\ (pc["mon"] # "error_sleep" /\ pc'["mon"] = "error_sleep")
             => /\ actor' = "mon"
                /\ logged' = <<"monitoring_error">>
                /\ sent' = {}
                /\ UNCHANGED <<is_alive, server_process, running,
                               restart_count, last_restart>>
          /\ (pc["mon"] = "error_sleep" /\ pc'["mon"] # "error_sleep")
             => /\ pc'["mon"] = "monitor_loop"
                /\ now' = now + ErrorSleep
                /\ logged' = <<>>
                /\ UNCHANGED <<is_alive, server_process, running>>
          /\ (pc["main"] = "main_wait" /\ pc'["main"] = "main_loop")
             => /\ actor' = "main"
                /\ \A i \in 1..Len(logged') : logged'[i] \in HealthCheckMsgs
                /\ sent' = {}
                /\ pc'["mon"] = pc["mon"]
                /\ UNCHANGED <<is_alive, hWaitStop, server_process, running,
                               monitor_thread>>]_vars

(* C18 witness: after an exception in the monitor loop the monitor thread
   is back in its polling, the service is alive, and a health check that
   raised has just returned to the main loop *)
ExceptionsAreContainedWitness ==
    /\ errors >= 1
    /\ is_alive
    /\ pc["mon"] = "health_sleep"
    /\ actor = "main"
    /\ logged = <<"health_check_error">>
    /\ pc["main"] = "main_loop"

(* the entries of error severity that the last step logged *)
ErrorEntries == {i \in 1..Len(logged) : Severity(logged[i]) = "error"}

(* C19: no failure is logged more than once: a step of a thread, which
   handles at most one failure, writes at most one entry of error
   severity. *)
OneEntryPerFailure ==
    Cardinality(ErrorEntries) <= 1

ResourceWarnings == {"memory_exceeds", "high_cpu"}

(* C20: a periodic health check that finds the running worker above the
   memory limit or above 80 % CPU only logs: every entry it writes is a
   resource warning of warning severity, it calls neither terminate() nor
   kill() and launches nothing, the worker keeps running, and
   server_process, restart_count, last_restart and is_alive are
   unchanged. *)
ResourceWarningOnly ==
    [][(/\ pc["main"] = "main_wait"
        /\ pc'["main"] = "main_loop"
        /\ \E i \in 1..Len(logged') : logged'[i] \in ResourceWarnings)
       => /\ actor' = "main"
          /\ server_process \in running
          /\ \A i \in 1..Len(logged') :
                 /\ logged'[i] \in ResourceWarnings
                 /\ Severity(logged'[i]) = "warning"
          /\ sent' = {}
          /\ wrote' = {}
          /\ UNCHANGED <<server_process, restart_count, last_restart,
                         is_alive, running, launched, hWaitStop>>]_vars

(* C20 witness: a health check has just found the running worker above
   both limits, and the worker still runs *)
ResourceWarningWitness ==
    /\ actor = "main"
    /\ pc["main"] = "main_loop"
    /\ logged = <<"memory_exceeds", "high_cpu">>
    /\ server_process \in running
    /\ is_alive

----------------------------------------------------------------------------
(* a step that runs _start_server: the initial launch of SvcDoRun or the
   relaunch of _handle_server_restart *)
StartServerCalled ==
    \/ pc["main"] = "start_server" /\ pc'["main"] # "start_server"
    \/ pc["mon"] = "restart_delay" /\ pc'["mon"] # "restart_delay"

(* C21: when no server script exists, at the configured path or at any
   alternative path, _start_server raises: it logs the failure, spawns no
   process and leaves server_process as it was.  When the configured path
   is missing and some alternative exists, the script on the command line
   is the first alternative, in the order of the list, that exists. *)
MissingScriptLaunchesNothing ==
    [][StartServerCalled =>
        /\ exists \cap ScriptPaths = {} =>
              /\ "start_failed" \in Range(logged')
              /\ "server_started" \notin Range(logged')
              /\ \/ pc'["main"] = "raised"
                 \/ "restart_failed" \in Range(logged')
              /\ Launches' = {}
              /\ launched' = launched
              /\ running' \subseteq running
              /\ server_process' = server_process
        /\ (ConfiguredScript \notin exists /\ exists # {}) =>
              \E i \in DOMAIN AlternativePaths :
                  /\ AlternativePaths[i] \in exists
                  /\ \A j \in 1..(i - 1) : AlternativePaths[j] \notin exists
                  /\ launch'.cmd = <<python_exe, AlternativePaths[i]>>
                  /\ Launches' # {} <=> "server_started" \in Range(logged')
      ]_vars

(* the relaunch after a crash found every script gone: the handle of the
   crashed worker is still held *)
MissingScriptWitness ==
    /\ launch.outcome = "missing"
    /\ exists = {}
    /\ server_process # 0
    /\ "restart_failed" \in Range(logged)

(* C22: the command line handed to Popen is the Python executable followed
   by the script path; the configured key is no item of the command line
   or of the logged start command; the supervisor assigns
   OPENAI_API_KEY exactly when the key is non-empty, with the key as its
   value, and assigns the key to no other variable *)
KeyOnlyInEnvironment ==
    launch.outcome \in {"ok", "spawn_error"} =>
        /\ launch.script \in ScriptPaths
        /\ launch.cmd = <<python_exe, launch.script>>
        /\ api_key \notin Range(launch.cmd)
        /\ api_key \notin Range(launch.started)
        /\ (\E e \in launch.env : e[1] = "OPENAI_API_KEY") <=> api_key # ""
        /\ \A e \in launch.env :
              (e[1] = "OPENAI_API_KEY" \/ e[2] = api_key)
                  => e = <<"OPENAI_API_KEY", api_key>>

(* a worker was spawned while a key is configured *)
KeyOnlyInEnvironmentWitness ==
    /\ launch.outcome = "ok"
    /\ api_key = "sk-live"
    /\ <<"OPENAI_API_KEY", "sk-live">> \in launch.env
    /\ server_process \in running

----------------------------------------------------------------------------
(* datetime.fromisoformat: the instant an ISO string denotes *)
FromIsoFormat(iso) == iso[1] * DaySeconds + iso[2]

(* a step of _get_service_status *)
StatusStep == status' # status

(* C23: _get_service_status assigns none of is_alive, server_process,
   restart_count and last_restart; the restart_count and the last_restart
   in its dict are the values the fields hold when the dict is built (the
   time read back from its ISO form, None when there was no restart), and
   'status' tells whether is_alive holds; whatever psutil answers, the call
   returns its dict: with no handle the 'server_process' entry is None,
   with a handle it holds the metrics of that worker or an 'error' entry *)
StatusIsReadOnlySnapshot ==
    /\ [](status.phase = "literal"
            => \A metrics \in Metrics : ENABLED GetServiceStatusEnd(metrics))
    /\ [][StatusStep =>
            /\ UNCHANGED <<is_alive, server_process, restart_count,
                           last_restart>>
            /\ status'.phase \in {"literal", "returned"}
            /\ status'.phase = "literal" =>
                  /\ status'.restart_count = restart_count
                  /\ IF last_restart = NoTime
                     THEN status'.last_restart = None
                     ELSE /\ status'.last_restart # None
                          /\ FromIsoFormat(status'.last_restart)
                                 = last_restart
                  /\ status'.status = "Running" <=> is_alive
                  /\ status'.status = "Stopped" <=> ~is_alive
            /\ status'.phase = "returned" =>
                  /\ status.phase = "literal"
                  /\ status'.restart_count = status.restart_count
                  /\ status'.last_restart = status.last_restart
                  /\ IF server_process = 0
                     THEN status'.server_process = None
                     ELSE status'.server_process
                              \in {<<"pid", server_process>>, <<"error">>}
       ]_vars

(* a status query after a restart on a later day, while a stop is in
   progress, with psutil failing: the dict holds the restart count, the
   restart time and an 'error' entry *)
StatusIsReadOnlySnapshotWitness ==
    /\ status.phase = "returned"
    /\ status.status = "Stopped"
    /\ status.restart_count = 1
    /\ status.last_restart # None
    /\ status.last_restart[1] >= 1
    /\ status.server_process = <<"error">>
    /\ restart_count = 1

----------------------------------------------------------------------------
(* the tools the test expects the GPT-5 server to list *)
ExpectedTools ==
    {"ghidra_binary_analysis", "ghidra_function_analysis",
     "ghidra_exploit_development", "ghidra_malware_analysis",
     "ghidra_firmware_analysis", "ghidra_code_pattern_search",
     "gpt5_reverse_engineering_query"}

ToolCallReturned == fn = "handle_call_tool" /\ mpc = "returned"

(* C24: in each server the names handle_list_tools returns are the names
   handle_call_tool has a handler for, no two of them with the same
   handler; the GPT-5 server lists the seven names the test expects; a
   tool call answers 'Unknown tool: <name>' exactly for a name the server
   does not list *)
ListedToolsAreDispatched ==
    /\ \A srv \in Servers :
          /\ Range(ListTools(srv))
                = {n \in ToolNames : CallToolHandler(srv, n) # NoHandler}
          /\ \A i, j \in DOMAIN ListTools(srv) :
                i # j => CallToolHandler(srv, ListTools(srv)[i])
                            # CallToolHandler(srv, ListTools(srv)[j])
    /\ ExpectedTools \subseteq Range(ListTools("gpt5"))
    /\ ToolCallReturned =>
          (result.value = <<<<"Unknown tool: ", tool>>>>
              <=> tool \notin Range(ListTools(server)))

(* the Windows server was called with a tool that only the GPT-5 server
   lists *)
ListedToolsWitness ==
    /\ ToolCallReturned
    /\ server = "windows"
    /\ tool = "ghidra_code_pattern_search"
    /\ result.value = <<<<"Unknown tool: ", tool>>>>

QueryCalled == fn = "query_gpt5_with_retry"

Ended == mpc \in {"returned", "raised"}

(* C25: in query_gpt5_with_retry a request answered 200 with content is
   the last request sent, the call has returned, and what it returned is
   the content of that response, whatever the earlier attempts came to;
   the call returns in no other way *)
FirstSuccessIsReturned ==
    QueryCalled =>
        /\ \A i \in DOMAIN history :
              history[i].outcome = "200_content" =>
                  /\ i = Len(history)
                  /\ mpc = "returned"
                  /\ result = [kind |-> "return", value |-> Content(i - 1)]
        /\ mpc = "returned" =>
              /\ history # <<>>
              /\ history[Len(history)].outcome = "200_content"

(* the third attempt succeeded after a rate limit and a timeout *)
FirstSuccessWitness ==
    /\ QueryCalled
    /\ mpc = "returned"
    /\ Len(history) = 3
    /\ history[1].outcome = "429"
    /\ history[2].outcome = "timeout"
    /\ result.value = Content(2)

(* a non-blank value that denotes an 'sk-' key: once the surrounding
   whitespace is taken off, it starts with 'sk-' *)
DenotesKey(value) == Truthy(value) /\ StartsWith(Strip(value), SkPrefix)

(* C26: get_openai_api_key returns a key exactly when OPENAI_API_KEY or
   CHATGPT_COOKIE holds a non-blank value that denotes an 'sk-' key, the
   one of OPENAI_API_KEY when both do; what it returns is that value
   without surrounding whitespace, starting with 'sk-'; otherwise it
   raises RuntimeError *)
ApiKeyResolution ==
    (fn = "get_openai_api_key" /\ Ended) =>
        IF \E v \in Range(KeyVars) : DenotesKey(environ[v])
        THEN /\ result.kind = "return"
             /\ result.value
                   = Strip(IF DenotesKey(environ["OPENAI_API_KEY"])
                           THEN environ["OPENAI_API_KEY"]
                           ELSE environ["CHATGPT_COOKIE"])
             /\ Strip(result.value) = result.value
             /\ StartsWith(result.value, SkPrefix)
        ELSE result = KeyNotFound

(* C27: query_gpt5_with_retry sends at most MAX_RETRIES (3) requests and
   ends, by returning or by raising, whatever the requests come to *)
QueryTerminates ==
    /\ [](QueryCalled => Len(history) <= 3)
    /\ [](QueryCalled /\ Ended => result.kind \in {"return", "raise"})
    /\ <>(QueryCalled => Ended)

(* three requests were sent, each with another kind of failure, and the
   call raised *)
QueryTerminatesWitness ==
    /\ QueryCalled
    /\ mpc = "raised"
    /\ Len(history) = 3
    /\ history[1].outcome = "200_empty"
    /\ history[2].outcome = "http_error"
    /\ history[3].outcome = "connection_error"

AllAttemptsFailed ==
    /\ QueryCalled
    /\ Ended
    /\ Len(history) = MAX_RETRIES
    /\ history[MAX_RETRIES].outcome # "200_content"

(* C28: when all attempts of query_gpt5_with_retry have failed, the
   exception is 'Request timed out after all retries' or 'All retry
   attempts failed. Last error: ...' with the error of the last attempt,
   never 'Unexpected error in retry logic' *)
NoUnexpectedError ==
    /\ QueryCalled => result.value # <<"Unexpected error in retry logic">>
    /\ AllAttemptsFailed =>
          /\ result.kind = "raise"
          /\ \/ result.value = <<"Request timed out after all retries">>
             \/ result.value
                   = <<"All retry attempts failed. Last error: ",
                       ErrorText(history[MAX_RETRIES].outcome)>>

(* the seconds slept after a 429 on attempts 0, 1, 2 *)
RateLimitWaits == <<2, 4, 8>>

(* C29: in query_gpt5_with_retry a 429 on attempt k is followed by a sleep
   of RETRY_DELAY * 2^k seconds, that is 2, 4, 8; another failure on an
   attempt that is not the last by a sleep of 2 seconds; the sleep is
   taken before anything else happens; and a failure of any kind on an
   attempt that is not the last does not end the call: the next attempt
   follows *)
RetryWaits ==
    QueryCalled =>
        \A i \in DOMAIN history :
            /\ history[i].outcome = "429" =>
                  /\ history[i].wait = RETRY_DELAY * (2 ^ (i - 1))
                  /\ history[i].wait = RateLimitWaits[i]
            /\ (history[i].outcome \notin {"429", "200_content"}
                   /\ i < MAX_RETRIES) => history[i].wait = 2
            /\ (history[i].wait > 0 /\ i = Len(history)
                   /\ attempt = i - 1) => mpc = "sleep"
            /\ (history[i].outcome # "200_content" /\ i < MAX_RETRIES) =>
                  i < Len(history) \/ mpc \in {"sleep", "attempt"}

(* a rate limit on each of the first two attempts, slept 2 and 4 seconds,
   then an HTTP error and an empty response each retried *)
RetryWaitsWitness ==
    /\ QueryCalled
    /\ Len(history) = 3
    /\ history[1].outcome = "429"
    /\ history[1].wait = 2
    /\ history[2].outcome = "429"
    /\ history[2].wait = 4

(* C30: after the last of the MAX_RETRIES attempts of
   query_gpt5_with_retry or call_openai_api has failed, the function does
   not sleep: it reports the failure at once *)
NoWaitAfterFinalAttempt ==
    (fn \in {"query_gpt5_with_retry", "call_openai_api"}
        /\ Len(history) = MAX_RETRIES) =>
            /\ history[MAX_RETRIES].wait = 0
            /\ Ended

----------------------------------------------------------------------------
ApiCalled == fn = "call_openai_api"

(* the seconds slept between the attempts of call_openai_api *)
CallWaits == <<2, 4>>

(* C31: call_openai_api sends at most 3 requests; a failed attempt that is
   not the last is followed by a sleep of RETRY_DELAY * (attempt + 1)
   seconds, 2 then 4; a request answered 200 with content is the last one
   and its content is returned; the function never raises, and after three
   failed attempts of any kind, a 200 with a malformed body among them, it
   has returned None *)
CallOpenaiApiContract ==
    ApiCalled =>
        /\ Len(history) <= 3
        /\ mpc # "raised"
        /\ result.kind # "raise"
        /\ \A i \in DOMAIN history :
              /\ (history[i].outcome # "200_content" /\ i < MAX_RETRIES) =>
                    /\ history[i].wait = RETRY_DELAY * i
                    /\ history[i].wait = CallWaits[i]
                    /\ (i = Len(history) /\ attempt = i - 1) => mpc = "sleep"
              /\ history[i].outcome = "200_content" =>
                    /\ i = Len(history)
                    /\ mpc = "returned"
                    /\ result.value = Content(i - 1)
        /\ (Len(history) = MAX_RETRIES
               /\ history[MAX_RETRIES].outcome # "200_content") =>
                    /\ mpc = "returned"
                    /\ result = [kind |-> "return", value |-> None]

(* three attempts failed, the first on a malformed 200 body, and None was
   returned after sleeps of 2 and 4 seconds *)
CallOpenaiApiWitness ==
    /\ ApiCalled
    /\ mpc = "returned"
    /\ Len(history) = 3
    /\ history[1].outcome = "200_malformed"
    /\ history[1].wait = 2
    /\ history[2].outcome = "timeout"
    /\ history[2].wait = 4
    /\ history[3].outcome = "http_error"
    /\ result.value = None

(* a value that is not set, empty or made of whitespace only *)
Blank(value) == ~Truthy(value) \/ Strip(value) = <<>>

(* no variable that the called function reads holds a usable key: for
   query_gpt5_with_retry a non-blank value that denotes an 'sk-' key in
   one of the two variables, for call_openai_api, whose module has no rule
   on the form of a key, a non-blank value of OPENAI_API_KEY *)
NoUsableKey ==
    IF ApiCalled THEN Blank(environ["OPENAI_API_KEY"])
    ELSE \A v \in Range(KeyVars) : ~DenotesKey(environ[v])

(* C32: without a usable API key no HTTP request is sent:
   query_gpt5_with_retry raises and call_openai_api returns None, each
   before its first attempt *)
NoRequestWithoutKey ==
    ((QueryCalled \/ ApiCalled) /\ NoUsableKey) =>
        /\ history = <<>>
        /\ mpc # "attempt"
        /\ (QueryCalled /\ Ended) => result = KeyNotFound
        /\ (ApiCalled /\ Ended) => result = [kind |-> "return", value |-> None]

(* the exits of a handler with an exception *)
HandlerFailed == handler.exit \in {"raises", "missing argument"}

(* C33: handle_call_tool never raises: a tool call ends by returning a list
   of one TextContent, the 'Unknown tool: <name>' text for a name without a
   handler and the error text of the server for a handler that raised *)
ToolCallNeverRaises ==
    fn = "handle_call_tool" =>
        /\ mpc # "raised"
        /\ result.kind # "raise"
        /\ mpc = "returned" =>
              /\ result.kind = "return"
              /\ Len(result.value) = 1
              /\ CallToolHandler(server, tool) = NoHandler =>
                    result.value = <<<<"Unknown tool: ", tool>>>>
              /\ HandlerFailed =>
                    result.value =
                        <<CallToolError(server, tool, handler.exit)>>

(* a handler raised in each server and the call returned the error text *)
ToolCallNeverRaisesWitness ==
    /\ ToolCallReturned
    /\ server = "windows"
    /\ tool = "windows_pe_analysis"
    /\ handler = [name |-> "handle_pe_analysis", exit |-> "raises"]
    /\ result =
         [kind |-> "return",
          value |-> <<<<"Error executing tool ", "windows_pe_analysis",
                        ": ", "raises">>>>]

(* C34: a call of a listed tool with exactly the required arguments does
   not fail on a missing argument; each argument a handler cannot do
   without is in the required list of its tool *)
RequiredArgumentsSuffice ==
    (ToolCallReturned /\ tool \in Range(ListTools(server))) =>
        /\ arguments = ToolRequired(server, tool) =>
              handler.exit # "missing argument"
        /\ HandlerReads(server, tool) \subseteq ToolRequired(server, tool)

(* C35: a SvcStop that the monitor thread runs goes past the join to its
   'Service stopped' entry, and that step logs no monitoring error *)
MonitorSelfStopCompletes ==
    [][(pc["mon"] = "stop_join" /\ pc'["mon"] # "stop_join") =>
           /\ pc'["mon"] = "stop_end"
           /\ \A i \in DOMAIN logged' : logged'[i] # "monitoring_error"]_vars

(* C36: at most one launched worker runs, and it is the one held in
   server_process, which is the worker launched last; a launch leaves the
   new worker as the only one running *)
SingleWorker ==
    /\ [](/\ Cardinality(running) <= 1
          /\ running \subseteq {server_process}
          /\ server_process = launched)
    /\ [][launched' # launched =>
              /\ launched' = launched + 1
              /\ running' = {launched'}
              /\ server_process' = launched']_vars

(* a second worker runs alone, launched after the stop signal *)
SingleWorkerWitness ==
    /\ launched = 2
    /\ running = {2}
    /\ server_process = 2
    /\ ~is_alive
    /\ pc["scm"] \in StopPcs

(* a stop was requested: SvcStop was entered by the control handler or by
   the monitor thread *)
StopRequested == pc["scm"] \in StopPcs \/ pc["mon"] \in StopPcs

(* SvcDoRun has ended: by its return or, after a failed launch, by the
   exception it re-raises *)
SvcDoRunEnded == pc["main"] \in {"done", "raised"}

(* C38: after a stop request SvcDoRun ends; a main loop that waits while
   the stop event is set goes nowhere but to the end of SvcDoRun, with no
   health check in between; the step that ends SvcDoRun logs that the
   execution completed as its last entry *)
SvcDoRunTerminates ==
    /\ StopRequested ~> SvcDoRunEnded
    /\ [][/\ (pc["main"] = "main_wait" /\ hWaitStop) =>
                pc'["main"] \in {"main_wait", "done"}
          /\ (~SvcDoRunEnded /\ SvcDoRunEnded') =>
                /\ actor' = "main"
                /\ logged' # <<>>
                /\ logged'[Len(logged')] = "execution_completed"
          /\ SvcDoRunEnded => pc'["main"] = pc["main"]]_vars

(* the main loop was woken by the stop event of a SvcStop run by the monitor
   thread, after a health check, and SvcDoRun returned *)
SvcDoRunTerminatesWitness ==
    /\ pc["main"] = "done"
    /\ actor = "main"
    /\ logged = <<"execution_completed">>
    /\ ~hWaitStop
    /\ ~is_alive
    /\ checks > 0
    /\ pc["mon"] \in StopPcs
    /\ pc["scm"] = "idle"
    /\ stops = 0

(* C39: restart_count is always within 0..max_restarts+1, and a launch by
   the restart handling of the monitor thread happens only while
   1 <= restart_count <= max_restarts *)
RestartCountBounded ==
    /\ [](restart_count \in 0..(max_restarts + 1))
    /\ [][(launched' # launched /\ actor' = "mon") =>
              /\ restart_count \in 1..max_restarts
              /\ restart_count' = restart_count]_vars

(* every allowed restart relaunched the worker and the next one was denied *)
RestartCountBoundedWitness ==
    /\ restart_count = max_restarts + 1
    /\ launched = max_restarts + 1
    /\ Len(decisions) = max_restarts + 1
    /\ ~LastDecision.allow

(* C37: the construction never fails: __init__ raises for no content of
   the configuration paths, and each logging call of the construction finds
   the logger that _setup_logging creates *)
ConstructionSucceeds ==
    /\ cpc.at # "raised"
    /\ cpc.at \in {"log_info", "log_error"} => logger

(* handle_function_analysis was called *)
AnalysisCalled == fn = "handle_function_analysis"

(* C40: when handle_function_analysis has ended, by its return or by an
   exception, no temporary script is left on disk; between its creation and
   the exit the script of the call is the one on disk *)
TempScriptDeleted ==
    AnalysisCalled =>
        /\ mpc \in {"returned", "raised"} => tempfiles = {}
        /\ mpc \in {"ghidra", "query"} =>
              script_path # NoScript /\ tempfiles = {script_path}

(* the script was created, Ghidra returned, query_gpt5_with_retry raised
   and the script is gone *)
TempScriptDeletedWitness ==
    /\ AnalysisCalled
    /\ mpc = "raised"
    /\ script_path = TempScript
    /\ result = [kind |-> "raise", value |-> <<"query failed">>]
    /\ tempfiles = {}

====
